---- MODULE Spec2Model ----
(***************************************************************************)
(* The application core of Solo (App.tsx): the in-memory snapshot          *)
(* appState, the handlers that replace it, the effects that run after a    *)
(* render (remote load, daily rollover, local and remote save), and the    *)
(* two persistence collaborators of utils/storage.ts.                      *)
(*                                                                         *)
(* Instants are minutes since the epoch.  An optional value is the empty   *)
(* sequence (absent) or a one-element sequence (present).                  *)
(***************************************************************************)
EXTENDS Integers, Sequences, FiniteSets, TLC

VARIABLES
    appState,     \* useState<AppState>, App.tsx:58
    pendingAuth,  \* useState pendingAuth, App.tsx:72
    now,          \* the wall clock, new Date()
    tz,           \* the viewer's offset from UTC, in minutes
    localStore,   \* localStorage[STORAGE_KEY]
    storage,      \* the condition of localStorage: out of quota, text under the key unparsable
    remote,       \* Firestore collection appState: one document per user id
    saveQ,        \* setDoc calls issued and not yet settled, oldest first
    loads,        \* getDoc calls of the fetchRemoteState effect not yet delivered
    nextId,       \* the ids createId / crypto.randomUUID have handed out
    events,       \* the UI events handled so far in the run
    limit,        \* the UI events the run may handle
    subtasks,     \* QuestCreateDialog: useState<Subtask[]>, QuestCreateDialog.tsx:49
    newSubtask,   \* QuestCreateDialog: the text of the subtask input, QuestCreateDialog.tsx:50
    toast,        \* the outcome the last step reported to the user (sonner toast), if any
    lastAction    \* what the last step did (history, read by the properties only)

vars == <<appState, pendingAuth, now, tz, localStore, storage, remote, saveQ, loads, nextId,
          subtasks, newSubtask, toast, events, limit, lastAction>>

----------------------------------------------------------------------------
(* Bounds of the model *)

MaxEvents == 5
MaxLocalEvents == 6
MaxXPEvents == 7
MaxTicks == 2
MaxPendingSaves == 1
MaxPendingLoads == 1

TickMinutes == 12 * 60
MinutesPerDay == 24 * 60
TzOffsets == {12 * 60}
Uids == {"u1"}
Names == {"Neo"}
FocusInputs == {[duration |-> 25, xpEarned |-> 50]}
WideFocusInputs == {[duration |-> 25, xpEarned |-> x] : x \in {25, 100, 250}}
Moods == {"happy"}
AppPages == {"settings"}

----------------------------------------------------------------------------
(* Optional values *)

None == <<>>
Some(x) == <<x>>
Val(o) == o[1]

Max(a, b) == IF a >= b THEN a ELSE b

----------------------------------------------------------------------------
(* utils/date *)

\* toLocalDateKey(d): the calendar day of d in the viewer's timezone
toLocalDateKey(t, offset) == (t + offset) \div MinutesPerDay

\* d.toISOString().split("T")[0]: the calendar day of d in UTC
isoDatePrefix(t) == t \div MinutesPerDay

\* makeDueDateISO(d): an instant on the local calendar day of d
makeDueDateISO(t, offset) == toLocalDateKey(t, offset) * MinutesPerDay - offset

\* isoToLocalDateKey(iso)
isoToLocalDateKey(iso, offset) == toLocalDateKey(iso, offset)

----------------------------------------------------------------------------
(* utils/xp *)

BaseLevelXP == 100

calculateXPForLevel(n) == BaseLevelXP * n

RECURSIVE consumeLevels(_, _)
consumeLevels(level, rest) ==
    IF rest >= calculateXPForLevel(level)
    THEN consumeLevels(level + 1, rest - calculateXPForLevel(level))
    ELSE level

calculateLevel(totalXP) == consumeLevels(1, totalXP)

Difficulties == {"easy", "normal", "hard"}

\* a difficulty outside the enumeration resolves to the reward of normal
getXPForDifficulty(d) ==
    CASE d = "easy" -> 10
      [] d = "normal" -> 25
      [] d = "hard" -> 50
      [] OTHER -> 25

----------------------------------------------------------------------------
(* utils/mockData *)

MockUserId == "mock-user"

createMockUser(name) ==
    [id |-> MockUserId, name |-> name, level |-> 1, xp |-> 0,
     xpToNextLevel |-> calculateXPForLevel(1), totalXP |-> 0]

mockQuests ==
    << [id |-> <<"mock-quest", 1>>, difficulty |-> "easy", status |-> "pending",
        xpReward |-> getXPForDifficulty("easy"), isDaily |-> TRUE,
        completedAt |-> None, dueDate |-> None,
        subtasks |-> << [id |-> "s1", completed |-> TRUE] >>],
       [id |-> <<"mock-quest", 2>>, difficulty |-> "hard", status |-> "pending",
        xpReward |-> getXPForDifficulty("hard"), isDaily |-> FALSE,
        completedAt |-> None, dueDate |-> None,
        subtasks |-> << [id |-> "s2", completed |-> TRUE] >>] >>

mockHabits ==
    << [id |-> <<"mock-habit", 1>>, currentStreak |-> 6, longestStreak |-> 6,
        xpPerCompletion |-> 10, completedDates |-> << >>] >>

mockBadges ==
    << [id |-> "b1", requirement |-> "Complete 1 quest", isLocked |-> TRUE, unlockedAt |-> None],
       [id |-> "b2", requirement |-> "Maintain a 7-day streak", isLocked |-> TRUE, unlockedAt |-> None],
       [id |-> "b3", requirement |-> "Complete 50 quests", isLocked |-> TRUE, unlockedAt |-> None],
       [id |-> "b4", requirement |-> "Complete 100 focus sessions", isLocked |-> TRUE, unlockedAt |-> None],
       [id |-> "b5", requirement |-> "Reach Level 50", isLocked |-> TRUE, unlockedAt |-> None] >>

----------------------------------------------------------------------------
(* Strings: String.prototype.toLowerCase and includes, tabulated over the   *)
(* requirement texts of the badge set                                      *)

toLowerCase(s) ==
    CASE s = "Complete 1 quest" -> "complete 1 quest"
      [] s = "Maintain a 7-day streak" -> "maintain a 7-day streak"
      [] s = "Complete 50 quests" -> "complete 50 quests"
      [] s = "Complete 100 focus sessions" -> "complete 100 focus sessions"
      [] s = "Reach Level 50" -> "reach level 50"
      [] OTHER -> s

includes(s, needle) ==
    <<s, needle>> \in
        { <<"complete 1 quest", "complete 1 quest">>,
          <<"maintain a 7-day streak", "7-day streak">>,
          <<"complete 50 quests", "50 quests">>,
          <<"complete 100 focus sessions", "100 focus sessions">>,
          <<"reach level 50", "level 50">> }

----------------------------------------------------------------------------
(* Sequence helpers: Array.prototype.map / filter / some / find *)

MapSeq(seq, F(_)) == IF seq = << >> THEN << >> ELSE [i \in 1..Len(seq) |-> F(seq[i])]

FilterSeq(seq, Keep(_)) == SelectSeq(seq, Keep)

SomeSeq(seq, P(_)) == \E i \in DOMAIN seq : P(seq[i])

\* find: the first element with the id, or absent
FindById(seq, id) ==
    LET hits == {i \in DOMAIN seq : seq[i].id = id}
    IN IF hits = {} THEN None
       ELSE Some(seq[CHOOSE i \in hits : \A j \in hits : i <= j])

----------------------------------------------------------------------------
(* App.tsx: the initial snapshot *)

InitialAppState ==
    [user |-> None, quests |-> << >>, habits |-> << >>, focusSessions |-> << >>,
     badges |-> mockBadges, currentPage |-> "landing", isOnboarded |-> FALSE,
     lastDailyReset |-> None, moodByDate |-> {}]

----------------------------------------------------------------------------
(* App.tsx: checkAndUnlockBadges *)

QuestBadgeThreshold == 1
StreakBadgeThreshold == 7
QuestsBadgeThreshold == 50
FocusBadgeThreshold == 100
LevelBadgeThreshold == 50

completedQuestsCount(state) == Len(FilterSeq(state.quests, LAMBDA q : q.status = "completed"))
completedFocusSessions(state) == Len(FilterSeq(state.focusSessions, LAMBDA fs : fs.completed))

\* BadgeUnlocks with the quest count compared by > in the "50 quests" row
BadgeUnlocks_fiftyExclusive(state, badge) ==
    LET requirement == toLowerCase(badge.requirement)
    IN IF includes(requirement, "complete 1 quest") /\ completedQuestsCount(state) >= QuestBadgeThreshold
         THEN TRUE
       ELSE IF includes(requirement, "7-day streak")
               /\ SomeSeq(state.habits, LAMBDA h : h.longestStreak >= StreakBadgeThreshold)
         THEN TRUE
       ELSE IF includes(requirement, "50 quests") /\ completedQuestsCount(state) > QuestsBadgeThreshold
         THEN TRUE
       ELSE IF includes(requirement, "100 focus sessions")
               /\ completedFocusSessions(state) >= FocusBadgeThreshold
         THEN TRUE
       ELSE IF includes(requirement, "level 50") /\ Val(state.user).level >= LevelBadgeThreshold
         THEN TRUE
       ELSE FALSE

\* BadgeUnlocks with the quest count compared by > in the "complete 1 quest"
\* row
BadgeUnlocks_firstExclusive(state, badge) ==
    LET requirement == toLowerCase(badge.requirement)
    IN IF includes(requirement, "complete 1 quest") /\ completedQuestsCount(state) > QuestBadgeThreshold
         THEN TRUE
       ELSE IF includes(requirement, "7-day streak")
               /\ SomeSeq(state.habits, LAMBDA h : h.longestStreak >= StreakBadgeThreshold)
         THEN TRUE
       ELSE IF includes(requirement, "50 quests") /\ completedQuestsCount(state) >= QuestsBadgeThreshold
         THEN TRUE
       ELSE IF includes(requirement, "100 focus sessions")
               /\ completedFocusSessions(state) >= FocusBadgeThreshold
         THEN TRUE
       ELSE IF includes(requirement, "level 50") /\ Val(state.user).level >= LevelBadgeThreshold
         THEN TRUE
       ELSE FALSE

BadgeUnlocks(state, badge) ==
    LET requirement == toLowerCase(badge.requirement)
    IN IF includes(requirement, "complete 1 quest") /\ completedQuestsCount(state) >= QuestBadgeThreshold
         THEN TRUE
       ELSE IF includes(requirement, "7-day streak")
               /\ SomeSeq(state.habits, LAMBDA h : h.longestStreak >= StreakBadgeThreshold)
         THEN TRUE
       ELSE IF includes(requirement, "50 quests") /\ completedQuestsCount(state) >= QuestsBadgeThreshold
         THEN TRUE
       ELSE IF includes(requirement, "100 focus sessions")
               /\ completedFocusSessions(state) >= FocusBadgeThreshold
         THEN TRUE
       ELSE IF includes(requirement, "level 50") /\ Val(state.user).level >= LevelBadgeThreshold
         THEN TRUE
       ELSE FALSE

\* checkAndUnlockBadges without the early return for a badge that is already
\* unlocked
checkAndUnlockBadges_noEarlyReturn(state, t) ==
    MapSeq(state.badges,
           LAMBDA badge :
               IF state.user = None THEN badge
               ELSE IF BadgeUnlocks(state, badge)
                    THEN [badge EXCEPT !.isLocked = FALSE, !.unlockedAt = Some(t)]
                    ELSE badge)

checkAndUnlockBadges(state, t) ==
    MapSeq(state.badges,
           LAMBDA badge :
               IF ~badge.isLocked THEN badge
               ELSE IF state.user = None THEN badge
               ELSE IF BadgeUnlocks(state, badge)
                    THEN [badge EXCEPT !.isLocked = FALSE, !.unlockedAt = Some(t)]
                    ELSE badge)

----------------------------------------------------------------------------
(* App.tsx: the XP and level recomputation of the three XP-granting        *)
(* handlers (the same statements in each)                                  *)

RECURSIVE xpForCurrentLevel(_, _)
xpForCurrentLevel(i, newLevel) ==
    IF i < newLevel THEN calculateXPForLevel(i) + xpForCurrentLevel(i + 1, newLevel) ELSE 0

\* updatedUser with the XP within the level carried over instead of
\* recomputed from the total
updatedUser_xpCarried(user, gained) ==
    LET newTotalXP == user.totalXP + gained
        newLevel == calculateLevel(newTotalXP)
    IN [user EXCEPT !.xp = user.xp + gained,
                    !.xpToNextLevel = calculateXPForLevel(newLevel),
                    !.level = newLevel, !.totalXP = newTotalXP]

\* updatedUser with the cost of the next level taken from the level before
\* the gain
updatedUser_oldLevelCost(user, gained) ==
    LET newTotalXP == user.totalXP + gained
        newLevel == calculateLevel(newTotalXP)
    IN [user EXCEPT !.xp = newTotalXP - xpForCurrentLevel(1, newLevel),
                    !.xpToNextLevel = calculateXPForLevel(user.level),
                    !.level = newLevel, !.totalXP = newTotalXP]

\* updatedUser with the level computed from the gain alone
updatedUser_levelOfGain(user, gained) ==
    LET newTotalXP == user.totalXP + gained
        newLevel == calculateLevel(gained)
    IN [user EXCEPT !.xp = gained - xpForCurrentLevel(1, newLevel),
                    !.xpToNextLevel = calculateXPForLevel(newLevel),
                    !.level = newLevel, !.totalXP = newTotalXP]

updatedUser(user, gained) ==
    LET newTotalXP == user.totalXP + gained
        newLevel == calculateLevel(newTotalXP)
        currentXP == newTotalXP - xpForCurrentLevel(1, newLevel)
        xpToNextLevel == calculateXPForLevel(newLevel)
    IN [user EXCEPT !.xp = currentXP, !.xpToNextLevel = xpToNextLevel,
                    !.level = newLevel, !.totalXP = newTotalXP]

----------------------------------------------------------------------------
(* App.tsx: the daily rollover (the updater of the rollover effect) *)

\* the reset of one daily quest
resetDaily(q, t, offset) ==
    [q EXCEPT !.status = "pending",
              !.completedAt = None,
              !.dueDate = Some(makeDueDateISO(t, offset)),
              !.subtasks = MapSeq(q.subtasks, LAMBDA st : [st EXCEPT !.completed = FALSE])]

\* dailyRollover that also starts the badge set over
dailyRollover_badgesReset(prev, todayKey, t, offset) ==
    IF prev.user = None THEN prev
    ELSE IF prev.lastDailyReset = Some(todayKey) THEN prev
    ELSE [prev EXCEPT
            !.quests = MapSeq(prev.quests,
                LAMBDA q : IF ~q.isDaily THEN q ELSE resetDaily(q, t, offset)),
            !.badges = mockBadges,
            !.lastDailyReset = Some(todayKey)]

\* dailyRollover without the comparison of lastDailyReset with today's key
dailyRollover_everyRun(prev, todayKey, t, offset) ==
    IF prev.user = None THEN prev
    ELSE [prev EXCEPT
            !.quests = MapSeq(prev.quests,
                LAMBDA q : IF ~q.isDaily THEN q ELSE resetDaily(q, t, offset)),
            !.lastDailyReset = Some(todayKey)]

\* dailyRollover that leaves the subtasks of the daily quests as they are
dailyRollover_subtasksKept(prev, todayKey, t, offset) ==
    IF prev.user = None THEN prev
    ELSE IF prev.lastDailyReset = Some(todayKey) THEN prev
    ELSE [prev EXCEPT
            !.quests = MapSeq(prev.quests,
                LAMBDA q : IF ~q.isDaily THEN q
                           ELSE [resetDaily(q, t, offset) EXCEPT !.subtasks = q.subtasks]),
            !.lastDailyReset = Some(todayKey)]

\* dailyRollover that resets every quest, daily or not
dailyRollover_allQuests(prev, todayKey, t, offset) ==
    IF prev.user = None THEN prev
    ELSE IF prev.lastDailyReset = Some(todayKey) THEN prev
    ELSE [prev EXCEPT
            !.quests = MapSeq(prev.quests, LAMBDA q : resetDaily(q, t, offset)),
            !.lastDailyReset = Some(todayKey)]

dailyRollover(prev, todayKey, t, offset) ==
    IF prev.user = None THEN prev
    ELSE IF prev.lastDailyReset = Some(todayKey) THEN prev
    ELSE [prev EXCEPT
            !.quests = MapSeq(prev.quests,
                LAMBDA q : IF ~q.isDaily THEN q ELSE resetDaily(q, t, offset)),
            !.lastDailyReset = Some(todayKey)]

----------------------------------------------------------------------------
(* App.tsx: the effects that run after a render *)

\* the render with the save effects keyed on the user like the other two
\* effects: the snapshot a rollover produces is not saved
Rendered_rolloverUnsaved(s, userChanged, t, offset) ==
    LET runs == userChanged /\ s.user # None
        rolled == IF runs THEN dailyRollover(s, toLocalDateKey(t, offset), t, offset) ELSE s
    IN [final |-> rolled,
        saved |-> IF s.user = None THEN << >> ELSE <<s>>,
        load |-> IF runs THEN {Val(s.user).id} ELSE {},
        rolled |-> rolled # s]

\* The snapshot a render of s ends in, and what its effects issue.  The
\* fetchRemoteState and rollover effects depend on [appState.user] and run
\* when the user object was replaced; the two save effects depend on
\* [appState] and run after every render with a user.  A rollover that
\* changes the snapshot renders once more, and the save effects run again.
Rendered(s, userChanged, t, offset) ==
    LET runs == userChanged /\ s.user # None
        rolled == IF runs THEN dailyRollover(s, toLocalDateKey(t, offset), t, offset) ELSE s
    IN [final |-> rolled,
        saved |-> IF s.user = None THEN << >>
                  ELSE IF rolled = s THEN <<s>> ELSE <<s, rolled>>,
        load |-> IF runs THEN {Val(s.user).id} ELSE {},
        rolled |-> rolled # s]

\* saveToFirebase: a setDoc call joins the calls in flight; with
\* MaxPendingSaves in flight the oldest has already failed
Enqueue(q, items) ==
    LET all == q \o items
    IN IF Len(all) <= MaxPendingSaves THEN all
       ELSE SubSeq(all, Len(all) - MaxPendingSaves + 1, Len(all))

\* loadFromFirebase: a getDoc call joins the calls in flight; with
\* MaxPendingLoads in flight the new call fails (and resolves to null)
IssueLoads(base, uids) ==
    IF Cardinality(base) < MaxPendingLoads
    THEN base \cup {[uid |-> u, phase |-> "sent", data |-> None] : u \in uids}
    ELSE base

StorageOk == [full |-> FALSE, corrupt |-> FALSE]

\* saveToStorage: setItem replaces the text under the key; when it throws
\* (the quota is used up) the error is logged and the text stays
saveToStorage(state) ==
    IF storage.full
    THEN [store |-> localStore, storage |-> storage]
    ELSE [store |-> Some(state), storage |-> [storage EXCEPT !.corrupt = FALSE]]

\* loadFromStorage with the parse error not caught: what is under the key
\* is handed to the caller
loadFromStorage_noCatch == localStore

\* loadFromStorage: null when nothing is under the key, null when
\* JSON.parse throws, else the parsed snapshot
loadFromStorage ==
    IF localStore = None THEN None
    ELSE IF storage.corrupt THEN None
    ELSE localStore

Did(name, noop, rolled) == [name |-> name, noop |-> noop, rolled |-> rolled]

\* setAppState(s) followed by the render and its effects
Commit(s, userChanged, baseLoads, name) ==
    LET r == Rendered(s, userChanged, now, tz)
    IN /\ appState' = r.final
       /\ localStore' = IF r.saved = << >> THEN localStore
                        ELSE saveToStorage(r.saved[Len(r.saved)]).store
       /\ storage' = IF r.saved = << >> THEN storage
                     ELSE saveToStorage(r.saved[Len(r.saved)]).storage
       /\ saveQ' = IF r.saved = << >> THEN saveQ
                   ELSE Enqueue(saveQ,
                                [i \in 1..Len(r.saved) |->
                                    [uid |-> Val(s.user).id, state |-> r.saved[i]]])
       /\ loads' = IssueLoads(baseLoads, r.load)
       /\ lastAction' = Did(name, FALSE, r.rolled)

\* a handler that returns before any setAppState
NoOp(name) ==
    /\ lastAction' = Did(name, TRUE, FALSE)
    /\ toast' = None
    /\ UNCHANGED <<appState, pendingAuth, now, tz, localStore, storage, remote, saveQ, loads, nextId>>

\* toast.success / toast.info with a fixed text
Toast(kind) == Some([kind |-> kind])

\* questToast with the new level compared with the first level instead of
\* the level of the rendered user
questToast_aboveFirstLevel(user, quest) ==
    LET newTotalXP == user.totalXP + quest.xpReward
        newLevel == calculateLevel(newTotalXP)
        leveledUp == newLevel > 1
        currentXP == newTotalXP - xpForCurrentLevel(1, newLevel)
        xpToNextLevel == calculateXPForLevel(newLevel)
    IN IF leveledUp
       THEN Some([kind |-> "levelUp", level |-> newLevel, xp |-> quest.xpReward])
       ELSE Some([kind |-> "questComplete", xp |-> quest.xpReward,
                  untilNext |-> xpToNextLevel - currentXP, nextLevel |-> newLevel + 1])

\* the toast of handleCompleteQuest: "Level Up! You're now Level n" when the
\* new level is above the level of the rendered user, else "Quest Complete!"
\* with the XP left until the next level
questToast(user, quest) ==
    LET newTotalXP == user.totalXP + quest.xpReward
        newLevel == calculateLevel(newTotalXP)
        leveledUp == newLevel > user.level
        currentXP == newTotalXP - xpForCurrentLevel(1, newLevel)
        xpToNextLevel == calculateXPForLevel(newLevel)
    IN IF leveledUp
       THEN Some([kind |-> "levelUp", level |-> newLevel, xp |-> quest.xpReward])
       ELSE Some([kind |-> "questComplete", xp |-> quest.xpReward,
                  untilNext |-> xpToNextLevel - currentXP, nextLevel |-> newLevel + 1])

\* the toast of the completing branch of handleToggleHabit
habitToast(habit) ==
    LET newStreak == habit.currentStreak + 1
    IN Some([kind |-> "habitComplete", xp |-> habit.xpPerCompletion,
             streak |-> IF newStreak > 1 THEN Some(newStreak) ELSE None])

\* the toast of handleFocusComplete
focusToast(duration, xpEarned) ==
    Some([kind |-> "focusComplete", xp |-> xpEarned, duration |-> duration])

isAppPage == appState.user # None /\ appState.isOnboarded

----------------------------------------------------------------------------
(* App.tsx: navigation, authentication, onboarding *)

\* LandingPage onGetStarted: handleNavigate("auth")
GetStarted ==
    /\ appState.currentPage = "landing"
    /\ Commit([appState EXCEPT !.currentPage = "auth"], FALSE, loads, "navigate")
    /\ UNCHANGED <<pendingAuth, now, tz, remote, nextId>>
    /\ toast' = None

\* AppSidebar / MobileNav onNavigate: handleNavigate(page)
handleNavigate(page) ==
    /\ isAppPage
    /\ Commit([appState EXCEPT !.currentPage = page], FALSE, loads, "navigate")
    /\ UNCHANGED <<pendingAuth, now, tz, remote, nextId>>
    /\ toast' = None

\* handleAuth, sign-in or sign-up succeeded: loadFromFirebase(uid) gave the
\* document (ok) or null (no document, or the read failed)
handleAuth(uid, name, ok) ==
    /\ appState.currentPage = "auth"
    /\ LET remoteState == IF ok THEN remote[uid] ELSE None
       IN IF remoteState # None /\ Val(remoteState).user # None
          THEN /\ pendingAuth' = None
               /\ Commit([Val(remoteState) EXCEPT !.currentPage = "dashboard",
                                                  !.isOnboarded = TRUE],
                         TRUE, loads, "authLoaded")
          ELSE /\ pendingAuth' = Some([uid |-> uid, name |-> name])
               /\ Commit([appState EXCEPT !.currentPage = "onboarding"],
                         FALSE, loads, "authNew")
    /\ toast' = IF ok /\ remote[uid] # None /\ Val(remote[uid]).user # None
                THEN Toast("welcomeBack") ELSE None
    /\ UNCHANGED <<now, tz, remote, nextId>>

\* the errors the identity provider rejects a sign-in or sign-up with: the
\* four codes the catch block knows, and two it does not
ProviderErrors ==
    { [code |-> "auth/invalid-login-credentials", message |-> "Firebase: Error (auth/invalid-login-credentials)."],
      [code |-> "auth/email-already-in-use", message |-> "Firebase: Error (auth/email-already-in-use)."],
      [code |-> "auth/weak-password", message |-> "Firebase: Password should be at least 6 characters (auth/weak-password)."],
      [code |-> "auth/operation-not-allowed", message |-> "Firebase: Error (auth/operation-not-allowed)."],
      [code |-> "auth/network-request-failed", message |-> "Firebase: Error (auth/network-request-failed)."],
      [code |-> "auth/too-many-requests", message |-> "Firebase: Error (auth/too-many-requests)."] }

\* the message of the catch block with the raw message of an unrecognised
\* error replaced by the fixed text
authErrorMessage_rawDropped(err) ==
    CASE err.code = "auth/invalid-login-credentials" -> "Email atau password salah."
      [] err.code = "auth/email-already-in-use" -> "Email ini sudah terdaftar. Coba Sign In."
      [] err.code = "auth/weak-password" -> "Password terlalu lemah (minimal 6 karakter)."
      [] err.code = "auth/operation-not-allowed" -> "Provider Auth belum diaktifkan di Firebase Console (Enable Email/Password di Authentication)."
      [] OTHER -> "Gagal login."

\* the message of the catch block: a fixed text per recognised code, else
\* err.message || "Gagal login."
authErrorMessage(err) ==
    CASE err.code = "auth/invalid-login-credentials" -> "Email atau password salah."
      [] err.code = "auth/email-already-in-use" -> "Email ini sudah terdaftar. Coba Sign In."
      [] err.code = "auth/weak-password" -> "Password terlalu lemah (minimal 6 karakter)."
      [] err.code = "auth/operation-not-allowed" -> "Provider Auth belum diaktifkan di Firebase Console (Enable Email/Password di Authentication)."
      [] OTHER -> IF err.message # "" THEN err.message ELSE "Gagal login."

\* handleAuth, the identity provider rejected the sign-in or sign-up with
\* err: toast.error with the mapped message and console.error(err), no
\* setState
handleAuthFailed(err) ==
    /\ appState.currentPage = "auth"
    /\ lastAction' = Did("authFailed", TRUE, FALSE)
    /\ toast' = Some([kind |-> "loginFailed", description |-> authErrorMessage(err),
                      logged |-> err])
    /\ UNCHANGED <<appState, pendingAuth, now, tz, localStore, storage, remote, saveQ, loads, nextId>>

\* handleOnboardingComplete without the assignment of pendingAuth.uid: the
\* new user keeps the id createMockUser gave it
handleOnboardingComplete_mockId ==
    /\ appState.currentPage = "onboarding"
    /\ LET newUser == createMockUser(IF pendingAuth # None THEN Val(pendingAuth).name ELSE "Hero")
       IN Commit([appState EXCEPT !.user = Some(newUser),
                                  !.quests = mockQuests,
                                  !.habits = mockHabits,
                                  !.isOnboarded = TRUE,
                                  !.currentPage = "dashboard"],
                 TRUE, loads, "onboarding")
    /\ pendingAuth' = None
    /\ UNCHANGED <<now, tz, remote, nextId>>
    /\ toast' = Toast("welcome")

handleOnboardingComplete ==
    /\ appState.currentPage = "onboarding"
    /\ LET base == createMockUser(IF pendingAuth # None THEN Val(pendingAuth).name ELSE "Hero")
           newUser == IF pendingAuth # None
                      THEN [base EXCEPT !.id = Val(pendingAuth).uid]
                      ELSE base
       IN Commit([appState EXCEPT !.user = Some(newUser),
                                  !.quests = mockQuests,
                                  !.habits = mockHabits,
                                  !.isOnboarded = TRUE,
                                  !.currentPage = "dashboard"],
                 TRUE, loads, "onboarding")
    /\ pendingAuth' = None
    /\ UNCHANGED <<now, tz, remote, nextId>>
    /\ toast' = Toast("welcome")

----------------------------------------------------------------------------
(* App.tsx: quest handlers *)

MissingId == <<"missing", 0>>
QuestIdsOf(state) == {state.quests[i].id : i \in DOMAIN state.quests}
HabitIdsOf(state) == {state.habits[i].id : i \in DOMAIN state.habits}

\* createId(prefix) / crypto.randomUUID(): an id never handed out before
createId(prefix) == <<prefix, nextId>>

\* handleCreateQuest with the reward of a normal quest whatever the
\* difficulty
handleCreateQuest_normalReward(difficulty) ==
    /\ isAppPage
    /\ LET quest == [id |-> createId("quest"), difficulty |-> difficulty,
                     status |-> "pending", xpReward |-> getXPForDifficulty("normal"),
                     isDaily |-> FALSE, completedAt |-> None, dueDate |-> None,
                     subtasks |-> << >>]
       IN Commit([appState EXCEPT !.quests = Append(appState.quests, quest)],
                 FALSE, loads, "createQuest")
    /\ nextId' = nextId + 1
    /\ UNCHANGED <<pendingAuth, now, tz, remote>>
    /\ toast' = Toast("questCreated")

\* QuestCreateDialog handleCreate, then handleCreateQuest
handleCreateQuest(difficulty) ==
    /\ isAppPage
    /\ LET quest == [id |-> createId("quest"), difficulty |-> difficulty,
                     status |-> "pending", xpReward |-> getXPForDifficulty(difficulty),
                     isDaily |-> FALSE, completedAt |-> None, dueDate |-> None,
                     subtasks |-> << >>]
       IN Commit([appState EXCEPT !.quests = Append(appState.quests, quest)],
                 FALSE, loads, "createQuest")
    /\ nextId' = nextId + 1
    /\ UNCHANGED <<pendingAuth, now, tz, remote>>
    /\ toast' = Toast("questCreated")

\* handleAddQuestAI with the reward looked up without the default: a
\* difficulty outside the enumeration finds no entry and the reward is 0
handleAddQuestAI_noDefault(difficulty) ==
    /\ isAppPage
    /\ LET newQuest == [id |-> createId("quest"), difficulty |-> difficulty,
                        status |-> "pending",
                        xpReward |-> IF difficulty \in Difficulties
                                     THEN getXPForDifficulty(difficulty) ELSE 0,
                        isDaily |-> FALSE, completedAt |-> None, dueDate |-> None,
                        subtasks |-> << >>]
       IN Commit([appState EXCEPT !.quests = Append(appState.quests, newQuest)],
                 FALSE, loads, "addQuestAI")
    /\ nextId' = nextId + 1
    /\ UNCHANGED <<pendingAuth, now, tz, remote>>
    /\ toast' = Toast("aiQuestCreated")

\* handleAddQuestAI: getRandomQuestTemplate() picks the difficulty
handleAddQuestAI(difficulty) ==
    /\ isAppPage
    /\ LET newQuest == [id |-> createId("quest"), difficulty |-> difficulty,
                        status |-> "pending", xpReward |-> getXPForDifficulty(difficulty),
                        isDaily |-> FALSE, completedAt |-> None, dueDate |-> None,
                        subtasks |-> << >>]
       IN Commit([appState EXCEPT !.quests = Append(appState.quests, newQuest)],
                 FALSE, loads, "addQuestAI")
    /\ nextId' = nextId + 1
    /\ UNCHANGED <<pendingAuth, now, tz, remote>>
    /\ toast' = Toast("aiQuestCreated")

\* handleCompleteQuest with the id comparison of the map dropped: every quest
\* is marked completed
handleCompleteQuest_everyQuest(questId) ==
    LET quest == FindById(appState.quests, questId)
    IN IF quest = None \/ appState.user = None
       THEN NoOp("completeQuest")
       ELSE /\ LET updatedQuests ==
                       MapSeq(appState.quests,
                              LAMBDA q : [q EXCEPT !.status = "completed",
                                                   !.completedAt = Some(now)])
                   newState == [appState EXCEPT
                                   !.user = Some(updatedUser(Val(appState.user), Val(quest).xpReward)),
                                   !.quests = updatedQuests]
               IN Commit([newState EXCEPT !.badges = checkAndUnlockBadges(newState, now)],
                         TRUE, loads, "completeQuest")
            /\ UNCHANGED <<pendingAuth, now, tz, remote, nextId>>
            /\ toast' = questToast(Val(appState.user), Val(quest))

handleCompleteQuest(questId) ==
    LET quest == FindById(appState.quests, questId)
    IN IF quest = None \/ appState.user = None
       THEN NoOp("completeQuest")
       ELSE /\ LET updatedQuests ==
                       MapSeq(appState.quests,
                              LAMBDA q : IF q.id = questId
                                         THEN [q EXCEPT !.status = "completed",
                                                        !.completedAt = Some(now)]
                                         ELSE q)
                   newState == [appState EXCEPT
                                   !.user = Some(updatedUser(Val(appState.user), Val(quest).xpReward)),
                                   !.quests = updatedQuests]
               IN Commit([newState EXCEPT !.badges = checkAndUnlockBadges(newState, now)],
                         TRUE, loads, "completeQuest")
            /\ UNCHANGED <<pendingAuth, now, tz, remote, nextId>>
            /\ toast' = questToast(Val(appState.user), Val(quest))

\* QuestDetailDialog onSave: the quest with updatedQuest's id is replaced
questSave(updatedQuest) ==
    /\ isAppPage
    /\ Commit([appState EXCEPT !.quests =
                   MapSeq(appState.quests,
                          LAMBDA q : IF q.id = updatedQuest.id THEN updatedQuest ELSE q)],
              FALSE, loads, "questSave")
    /\ UNCHANGED <<pendingAuth, now, tz, remote, nextId>>
    /\ toast' = Toast("questUpdated")

\* the edits the detail dialog hands to onSave: a quest saved as pending (a
\* completed quest is reverted; completing goes through onComplete, which is
\* handleCompleteQuest)
QuestEdits(state) ==
    {[state.quests[i] EXCEPT !.status = "pending", !.completedAt = None] :
        i \in DOMAIN state.quests}

\* QuestDetailDialog onDelete
questDelete(questId) ==
    /\ isAppPage
    /\ Commit([appState EXCEPT !.quests = FilterSeq(appState.quests, LAMBDA q : q.id # questId)],
              FALSE, loads, "questDelete")
    /\ UNCHANGED <<pendingAuth, now, tz, remote, nextId>>
    /\ toast' = Toast("questDeleted")

----------------------------------------------------------------------------
(* App.tsx: habit handlers *)

DefaultHabitXP == 10

handleAddHabit ==
    /\ isAppPage
    /\ LET newHabit == [id |-> createId("habit"), currentStreak |-> 0, longestStreak |-> 0,
                        xpPerCompletion |-> DefaultHabitXP, completedDates |-> << >>]
       IN Commit([appState EXCEPT !.habits = Append(appState.habits, newHabit)],
                 FALSE, loads, "addHabit")
    /\ nextId' = nextId + 1
    /\ UNCHANGED <<pendingAuth, now, tz, remote>>
    /\ toast' = Toast("habitCreated")

\* date.startsWith(todayStr)
startsWithDay(date, todayStr) == isoDatePrefix(date) = todayStr

isCompletedToday(habit, t) ==
    SomeSeq(habit.completedDates, LAMBDA date : startsWithDay(date, isoDatePrefix(t)))

\* the habit after the undo branch
habitUndone(h, t) ==
    [h EXCEPT !.completedDates = FilterSeq(h.completedDates,
                                           LAMBDA d : ~startsWithDay(d, isoDatePrefix(t))),
              !.currentStreak = Max(0, h.currentStreak - 1)]

\* the habit after the completion branch
\* the completion branch without the update of longestStreak
habitCompleted_longestKept(h, habit, t) ==
    [h EXCEPT !.completedDates = Append(h.completedDates, t),
              !.currentStreak = habit.currentStreak + 1]

habitCompleted(h, habit, t) ==
    LET newStreak == habit.currentStreak + 1
        longestStreak == Max(habit.longestStreak, newStreak)
    IN [h EXCEPT !.completedDates = Append(h.completedDates, t),
                 !.currentStreak = newStreak,
                 !.longestStreak = longestStreak]

\* handleToggleHabit with the XP grant placed before the branch: the undo
\* grants xpPerCompletion as well
handleToggleHabit_undoGrants(habitId) ==
    LET habit == FindById(appState.habits, habitId)
    IN IF habit = None \/ appState.user = None
       THEN NoOp("toggleHabit")
       ELSE /\ LET undo == isCompletedToday(Val(habit), now)
                   updatedHabits ==
                       MapSeq(appState.habits,
                              LAMBDA h : IF h.id # habitId THEN h
                                         ELSE IF undo THEN habitUndone(h, now)
                                         ELSE habitCompleted(h, Val(habit), now))
                   newState == [appState EXCEPT
                                   !.user = Some(updatedUser(Val(appState.user),
                                                             Val(habit).xpPerCompletion)),
                                   !.habits = updatedHabits]
               IN Commit([newState EXCEPT !.badges = checkAndUnlockBadges(newState, now)],
                         TRUE, loads, IF undo THEN "habitUndo" ELSE "habitComplete")
            /\ UNCHANGED <<pendingAuth, now, tz, remote, nextId>>
            /\ toast' = IF isCompletedToday(Val(habit), now) THEN Toast("habitUnmarked") ELSE habitToast(Val(habit))

handleToggleHabit(habitId) ==
    LET habit == FindById(appState.habits, habitId)
    IN IF habit = None \/ appState.user = None
       THEN NoOp("toggleHabit")
       ELSE IF isCompletedToday(Val(habit), now)
       THEN /\ LET updatedHabits ==
                       MapSeq(appState.habits,
                              LAMBDA h : IF h.id = habitId THEN habitUndone(h, now) ELSE h)
                   newState == [appState EXCEPT !.habits = updatedHabits]
               IN Commit([newState EXCEPT !.badges = checkAndUnlockBadges(newState, now)],
                         FALSE, loads, "habitUndo")
            /\ UNCHANGED <<pendingAuth, now, tz, remote, nextId>>
            /\ toast' = Toast("habitUnmarked")
       ELSE /\ LET updatedHabits ==
                       MapSeq(appState.habits,
                              LAMBDA h : IF h.id = habitId THEN habitCompleted(h, Val(habit), now) ELSE h)
                   newState == [appState EXCEPT
                                   !.user = Some(updatedUser(Val(appState.user),
                                                             Val(habit).xpPerCompletion)),
                                   !.habits = updatedHabits]
               IN Commit([newState EXCEPT !.badges = checkAndUnlockBadges(newState, now)],
                         TRUE, loads, "habitComplete")
            /\ UNCHANGED <<pendingAuth, now, tz, remote, nextId>>
            /\ toast' = habitToast(Val(habit))

----------------------------------------------------------------------------
(* App.tsx: focus session, settings and mood handlers *)

\* handleFocusComplete without the badge evaluation
handleFocusComplete_noBadges(duration, xpEarned) ==
    IF appState.user = None
    THEN NoOp("focusComplete")
    ELSE /\ LET newFocusSession == [id |-> createId("focus"), duration |-> duration,
                                    startTime |-> now - duration, endTime |-> now,
                                    xpEarned |-> xpEarned, completed |-> TRUE]
            IN Commit([appState EXCEPT
                          !.user = Some(updatedUser(Val(appState.user), xpEarned)),
                          !.focusSessions = Append(appState.focusSessions, newFocusSession)],
                      TRUE, loads, "focusComplete")
         /\ nextId' = nextId + 1
         /\ UNCHANGED <<pendingAuth, now, tz, remote>>
         /\ toast' = focusToast(duration, xpEarned)

\* handleFocusComplete with the start instant taken as the end instant
handleFocusComplete_startAtEnd(duration, xpEarned) ==
    IF appState.user = None
    THEN NoOp("focusComplete")
    ELSE /\ LET newFocusSession == [id |-> createId("focus"), duration |-> duration,
                                    startTime |-> now, endTime |-> now,
                                    xpEarned |-> xpEarned, completed |-> TRUE]
                newState == [appState EXCEPT
                                !.user = Some(updatedUser(Val(appState.user), xpEarned)),
                                !.focusSessions = Append(appState.focusSessions, newFocusSession)]
            IN Commit([newState EXCEPT !.badges = checkAndUnlockBadges(newState, now)],
                      TRUE, loads, "focusComplete")
         /\ nextId' = nextId + 1
         /\ UNCHANGED <<pendingAuth, now, tz, remote>>
         /\ toast' = focusToast(duration, xpEarned)

handleFocusComplete(duration, xpEarned) ==
    IF appState.user = None
    THEN NoOp("focusComplete")
    ELSE /\ LET newFocusSession == [id |-> createId("focus"), duration |-> duration,
                                    startTime |-> now - duration, endTime |-> now,
                                    xpEarned |-> xpEarned, completed |-> TRUE]
                newState == [appState EXCEPT
                                !.user = Some(updatedUser(Val(appState.user), xpEarned)),
                                !.focusSessions = Append(appState.focusSessions, newFocusSession)]
            IN Commit([newState EXCEPT !.badges = checkAndUnlockBadges(newState, now)],
                      TRUE, loads, "focusComplete")
         /\ nextId' = nextId + 1
         /\ UNCHANGED <<pendingAuth, now, tz, remote>>
         /\ toast' = focusToast(duration, xpEarned)

\* handleLogout clearing the user only: the collections of the session stay
handleLogout_userOnly ==
    /\ appState.user # None
    /\ Commit([appState EXCEPT !.user = None,
                               !.currentPage = "landing",
                               !.isOnboarded = FALSE],
              TRUE, loads, "logout")
    /\ UNCHANGED <<pendingAuth, now, tz, remote, nextId>>
    /\ toast' = Toast("loggedOut")

\* handleLogout written as a functional update that spreads prev over the
\* fields it does not name
handleLogout_spreadsPrev ==
    /\ appState.user # None
    /\ Commit([InitialAppState EXCEPT !.lastDailyReset = appState.lastDailyReset,
                                      !.moodByDate = appState.moodByDate],
              TRUE, loads, "logout")
    /\ UNCHANGED <<pendingAuth, now, tz, remote, nextId>>
    /\ toast' = Toast("loggedOut")

\* SettingsPage onLogout (the settings page renders only with a user)
handleLogout ==
    /\ appState.user # None
    /\ Commit(InitialAppState, TRUE, loads, "logout")
    /\ UNCHANGED <<pendingAuth, now, tz, remote, nextId>>
    /\ toast' = Toast("loggedOut")

\* handleUpdateProfile without the early return: the updates are spread over
\* an absent user
handleUpdateProfile_noGuard(name) ==
    /\ LET user == IF appState.user = None THEN createMockUser(name) ELSE Val(appState.user)
       IN Commit([appState EXCEPT !.user = Some([user EXCEPT !.name = name])],
                 TRUE, loads, "updateProfile")
    /\ UNCHANGED <<pendingAuth, now, tz, remote, nextId>>
    /\ toast' = Toast("profileUpdated")

handleUpdateProfile(name) ==
    IF appState.user = None
    THEN NoOp("updateProfile")
    ELSE /\ Commit([appState EXCEPT !.user = Some([Val(appState.user) EXCEPT !.name = name])],
                   TRUE, loads, "updateProfile")
         /\ UNCHANGED <<pendingAuth, now, tz, remote, nextId>>
         /\ toast' = Toast("profileUpdated")

\* Dashboard onMoodChange (the dashboard renders only with a user)
onMoodChange(mood) ==
    /\ appState.user # None
    /\ LET todayKey == toLocalDateKey(now, tz)
       IN Commit([appState EXCEPT !.moodByDate =
                      {p \in appState.moodByDate : p[1] # todayKey} \cup {<<todayKey, mood>>}],
                 FALSE, loads, "mood")
    /\ UNCHANGED <<pendingAuth, now, tz, remote, nextId>>
    /\ toast' = Toast("moodSaved")

----------------------------------------------------------------------------
(* The environment: the clock, the remote store, a reload of the page *)

Tick ==
    /\ now < MaxTicks * TickMinutes
    /\ now' = now + TickMinutes
    /\ lastAction' = Did("tick", FALSE, FALSE)
    /\ UNCHANGED <<appState, pendingAuth, tz, localStore, storage, remote, saveQ, loads, nextId>>
    /\ toast' = None

\* saveToFirebase: setDoc resolves, the document is overwritten
RemoteSaveLands ==
    /\ saveQ # << >>
    /\ remote' = [remote EXCEPT ![Head(saveQ).uid] = Some(Head(saveQ).state)]
    /\ saveQ' = Tail(saveQ)
    /\ lastAction' = Did("saveLands", FALSE, FALSE)
    /\ UNCHANGED <<appState, pendingAuth, now, tz, localStore, storage, loads, nextId>>
    /\ toast' = None

\* saveToFirebase with a rejected setDoc issued again
RemoteSaveFails_retried ==
    /\ saveQ # << >>
    /\ saveQ' = Append(Tail(saveQ), Head(saveQ))
    /\ lastAction' = Did("saveFails", FALSE, FALSE)
    /\ UNCHANGED <<appState, pendingAuth, now, tz, localStore, storage, remote, loads, nextId>>
    /\ toast' = None

\* saveToFirebase: setDoc rejects, the error is logged
RemoteSaveFails ==
    /\ saveQ # << >>
    /\ saveQ' = Tail(saveQ)
    /\ lastAction' = Did("saveFails", FALSE, FALSE)
    /\ UNCHANGED <<appState, pendingAuth, now, tz, localStore, storage, remote, loads, nextId>>
    /\ toast' = None

\* loadFromFirebase: getDoc reads the document; a missing document and a
\* failed read both resolve to null, and fetchRemoteState then does nothing
RemoteRead(l, ok) ==
    /\ l \in loads
    /\ l.phase = "sent"
    /\ LET data == IF ok THEN remote[l.uid] ELSE None
       IN loads' = IF data = None THEN loads \ {l}
                   ELSE (loads \ {l}) \cup {[uid |-> l.uid, phase |-> "resp", data |-> data]}
    /\ lastAction' = Did("remoteRead", FALSE, FALSE)
    /\ UNCHANGED <<appState, pendingAuth, now, tz, localStore, storage, remote, saveQ, nextId>>
    /\ toast' = None

\* fetchRemoteState after the await: setAppState(remoteState)
fetchRemoteState(l) ==
    /\ l \in loads
    /\ l.phase = "resp"
    /\ Commit(Val(l.data), TRUE, loads \ {l}, "remoteLoaded")
    /\ UNCHANGED <<pendingAuth, now, tz, remote, nextId>>
    /\ toast' = None

\* The page is reloaded: the component state starts over, the pending
\* continuations are gone, and the mount effect installs what loadFromStorage
\* returns
Restart ==
    /\ pendingAuth' = None
    /\ IF loadFromStorage = None
       THEN /\ appState' = InitialAppState
            /\ loads' = {}
            /\ lastAction' = Did("restart", FALSE, FALSE)
            /\ UNCHANGED <<localStore, storage, saveQ>>
       ELSE Commit(Val(loadFromStorage), TRUE, {}, "restart")
    /\ UNCHANGED <<now, tz, remote, nextId>>
    /\ toast' = None

----------------------------------------------------------------------------
(* The specification *)

InitWith(n) ==
    /\ appState = InitialAppState
    /\ pendingAuth = None
    /\ now = 0
    /\ tz \in TzOffsets
    /\ localStore = None
    /\ storage = StorageOk
    /\ remote = [u \in Uids |-> None]
    /\ saveQ = << >>
    /\ loads = {}
    /\ nextId = 1
    /\ toast = None
    /\ subtasks = << >>
    /\ newSubtask = << >>
    /\ events = 0
    /\ limit = n
    /\ lastAction = Did("init", FALSE, FALSE)

\* a UI event: one handler runs to completion, then the render and its effects
UI(A) ==
    /\ events < limit
    /\ events' = events + 1
    /\ limit' = limit
    /\ UNCHANGED <<subtasks, newSubtask>>
    /\ A

\* a step of the clock or of the remote store
Env(A) == UNCHANGED <<events, limit, subtasks, newSubtask>> /\ A

\* the quests the UI events pick from: of the quests a long-time user
\* completed long ago, the first stands for all
QuestChoices(state) ==
    {id \in QuestIdsOf(state) : id[1] = "done-quest" => id[2] = 1}

UIEvent ==
    \/ UI(GetStarted)
    \/ \E page \in AppPages : UI(handleNavigate(page))
    \/ \E uid \in Uids, ok \in BOOLEAN : UI(handleAuth(uid, "Hero", ok))
    \/ \E err \in ProviderErrors : UI(handleAuthFailed(err))
    \/ UI(handleOnboardingComplete)
    \/ \E d \in Difficulties : UI(handleCreateQuest(d))
    \/ \E d \in Difficulties : UI(handleAddQuestAI(d))
    \/ \E id \in QuestChoices(appState) \cup {MissingId} : UI(handleCompleteQuest(id))
    \/ \E q \in QuestEdits(appState) : q.id \in QuestChoices(appState) /\ UI(questSave(q))
    \/ \E id \in QuestChoices(appState) : UI(questDelete(id))
    \/ UI(handleAddHabit)
    \/ \E id \in HabitIdsOf(appState) \cup {MissingId} : UI(handleToggleHabit(id))
    \/ \E f \in FocusInputs : UI(handleFocusComplete(f.duration, f.xpEarned))
    \/ UI(handleLogout)
    \/ \E name \in Names : UI(handleUpdateProfile(name))
    \/ \E mood \in Moods : UI(onMoodChange(mood))
    \/ UI(Restart)

RemoteEvent ==
    \/ Env(RemoteSaveLands)
    \/ Env(RemoteSaveFails)
    \/ \E l \in loads, ok \in BOOLEAN : Env(RemoteRead(l, ok))
    \/ \E l \in loads : Env(fetchRemoteState(l))

Init == InitWith(MaxEvents)

Next ==
    \/ UIEvent
    \/ Env(Tick)
    \/ RemoteEvent

Spec == Init /\ [][Next]_vars

\* Runs in which no call to the remote store settles (the device is offline
\* after sign-in): the UI events and the clock alone, over longer sessions
InitLocal == InitWith(MaxLocalEvents)

NextLocal ==
    \/ UIEvent
    \/ Env(Tick)

SpecLocal == InitLocal /\ [][NextLocal]_vars

\* Runs that sign in, onboard and then only earn XP, with focus sessions of
\* larger rewards: the level computation over several levels
InitXP == InitWith(MaxXPEvents)

NextXP ==
    \/ UI(GetStarted)
    \/ \E uid \in Uids : UI(handleAuth(uid, "Hero", TRUE))
    \/ UI(handleOnboardingComplete)
    \/ \E id \in QuestIdsOf(appState) : UI(handleCompleteQuest(id))
    \/ \E id \in HabitIdsOf(appState) : UI(handleToggleHabit(id))
    \/ \E f \in WideFocusInputs : UI(handleFocusComplete(f.duration, f.xpEarned))
    \/ Env(Tick)

SpecXP == InitXP /\ [][NextXP]_vars

\* Badge evaluation as a function of the snapshot: the snapshots are drawn
\* around the thresholds of the evaluator, and checkAndUnlockBadges is
\* applied to them at different instants
MaxEvaluations == 2

QuestCounts == {0, 1, 49, 50}
FocusCounts == {0, 99, 100}
Streaks == {6, 7}
TotalsAroundLevel50 == {122499, 122500}

completedQuests(n) ==
    [i \in 1..n |->
        [id |-> <<"done-quest", i>>, difficulty |-> "easy", status |-> "completed",
         xpReward |-> getXPForDifficulty("easy"), isDaily |-> FALSE,
         completedAt |-> Some(0), dueDate |-> None, subtasks |-> << >>]]

completedSessions(n) ==
    [i \in 1..n |->
        [id |-> <<"focus", i>>, duration |-> 25, startTime |-> 0, endTime |-> 25,
         xpEarned |-> 25, completed |-> TRUE]]

BadgeSnapshots ==
    {[InitialAppState EXCEPT
        !.user = u,
        !.quests = completedQuests(nq) \o << mockQuests[2] >>,
        !.focusSessions = completedSessions(nf),
        !.habits = << [mockHabits[1] EXCEPT !.longestStreak = st] >>,
        !.isOnboarded = TRUE,
        !.currentPage = "dashboard",
        !.badges = [i \in DOMAIN mockBadges |->
                       IF i \in open
                       THEN [mockBadges[i] EXCEPT !.isLocked = FALSE, !.unlockedAt = Some(0)]
                       ELSE mockBadges[i]]] :
        u \in {None} \cup {Some(updatedUser(createMockUser("Hero"), x)) : x \in TotalsAroundLevel50},
        nq \in QuestCounts, nf \in FocusCounts, st \in Streaks,
        open \in SUBSET (DOMAIN mockBadges)}

InitBadges ==
    /\ appState \in BadgeSnapshots
    /\ pendingAuth = None
    /\ now = 0
    /\ tz \in TzOffsets
    /\ localStore = None
    /\ storage = StorageOk
    /\ remote = [u \in Uids |-> None]
    /\ saveQ = << >>
    /\ loads = {}
    /\ nextId = 1
    /\ toast = None
    /\ subtasks = << >>
    /\ newSubtask = << >>
    /\ events = 0
    /\ limit = MaxEvaluations
    /\ lastAction = Did("init", FALSE, FALSE)

\* checkAndUnlockBadges(state) at the instant now
evaluateBadges ==
    /\ appState' = [appState EXCEPT !.badges = checkAndUnlockBadges(appState, now)]
    /\ lastAction' = Did("evaluateBadges", FALSE, FALSE)
    /\ UNCHANGED <<pendingAuth, now, tz, localStore, storage, remote, saveQ, loads, nextId>>
    /\ toast' = None

NextBadges ==
    \/ UI(evaluateBadges)
    \/ Env(Tick)

SpecBadges == InitBadges /\ [][NextBadges]_vars

\* Sessions of a long-time user next to the sessions of a new one: the
\* snapshot of a signed-in user one step below the thresholds of the badge
\* evaluator (49 completed quests, 99 focus sessions, a streak of 6, one XP
\* short of level 50), stored locally and remotely
MaxNearEvents == 3

NearThresholdSnapshot(uid, offset) ==
    LET base == [InitialAppState EXCEPT
                    !.user = Some([updatedUser(createMockUser("Hero"), 122499) EXCEPT !.id = uid]),
                    !.quests = completedQuests(49) \o mockQuests,
                    !.focusSessions = completedSessions(99),
                    !.habits = mockHabits,
                    !.isOnboarded = TRUE,
                    !.currentPage = "dashboard",
                    !.lastDailyReset = Some(toLocalDateKey(0, offset))]
    IN [base EXCEPT !.badges = checkAndUnlockBadges(base, 0)]

InitNear ==
    /\ tz \in TzOffsets
    /\ \E uid \in Uids :
         /\ appState = NearThresholdSnapshot(uid, tz)
         /\ localStore = Some(appState)
         /\ storage = StorageOk
         /\ remote = [u \in Uids |-> IF u = uid THEN Some(appState) ELSE None]
    /\ pendingAuth = None
    /\ now = 0
    /\ saveQ = << >>
    /\ loads = {}
    /\ nextId = 100
    /\ toast = None
    /\ subtasks = << >>
    /\ newSubtask = << >>
    /\ events = 0
    /\ limit = MaxNearEvents
    /\ lastAction = Did("init", FALSE, FALSE)

SpecNear == (InitLocal \/ InitNear) /\ [][NextLocal]_vars

\* Runs that sign in, onboard and then only create quests, with templates
\* whose difficulty may lie outside the enumeration: the reward lookup over
\* recognised and unrecognised values
MaxRewardEvents == 6

TemplateDifficulties == Difficulties \cup {"epic", ""}

InitReward == InitWith(MaxRewardEvents)

NextReward ==
    \/ UI(GetStarted)
    \/ \E uid \in Uids : UI(handleAuth(uid, "Hero", TRUE))
    \/ UI(handleOnboardingComplete)
    \/ \E d \in Difficulties : UI(handleCreateQuest(d))
    \/ \E d \in TemplateDifficulties : UI(handleAddQuestAI(d))
    \/ Env(Tick)

SpecReward == InitReward /\ [][NextReward]_vars

\* Runs over several days: a user signs in, onboards, adds habits and
\* toggles them, and the clock advances by whole days, so that at every
\* instant the UTC day and the viewer's local day are the same day
MaxStreakEvents == 7
MaxDays == 3

\* a day passes
TickDay ==
    /\ now < MaxDays * MinutesPerDay
    /\ now' = now + MinutesPerDay
    /\ lastAction' = Did("tickDay", FALSE, FALSE)
    /\ UNCHANGED <<appState, pendingAuth, tz, localStore, storage, remote, saveQ, loads, nextId>>
    /\ toast' = None

InitStreak == InitWith(MaxStreakEvents)

NextStreak ==
    \/ UI(GetStarted)
    \/ \E uid \in Uids : UI(handleAuth(uid, "Hero", TRUE))
    \/ UI(handleOnboardingComplete)
    \/ UI(handleAddHabit)
    \/ \E id \in HabitIdsOf(appState) : id[1] = "habit" /\ UI(handleToggleHabit(id))
    \/ Env(TickDay)

SpecStreak == InitStreak /\ [][NextStreak]_vars

\* Runs long enough for a user to sign up, log out and sign in again: the
\* sign-in, onboarding, logout and reload events, one XP handler, the clock
\* and the remote store
MaxAuthEvents == 7

InitAuth == InitWith(MaxAuthEvents)

NextAuth ==
    \/ UI(GetStarted)
    \/ \E uid \in Uids, ok \in BOOLEAN : UI(handleAuth(uid, "Hero", ok))
    \/ UI(handleOnboardingComplete)
    \/ \E id \in QuestChoices(appState) : UI(handleCompleteQuest(id))
    \/ UI(handleLogout)
    \/ UI(Restart)
    \/ Env(Tick)
    \/ RemoteEvent

SpecAuth == InitAuth /\ [][NextAuth]_vars

----------------------------------------------------------------------------
(* QuestCreateDialog.tsx: the subtask list of the quest creation dialog.   *)
(* A text is the sequence of its characters.                               *)

MaxDialogEvents == 6

\* what the user types into the subtask input
SubtaskTexts == {<< >>, <<" ">>, <<"a">>, <<" ", "b", " ">>}

\* String.prototype.trim: the text without its leading and trailing blanks
RECURSIVE trim(_)
trim(text) ==
    IF text = << >> THEN text
    ELSE IF Head(text) = " " THEN trim(Tail(text))
    ELSE IF text[Len(text)] = " " THEN trim(SubSeq(text, 1, Len(text) - 1))
    ELSE text

\* Number.prototype.toString: the decimal digits of a clock reading
RECURSIVE toString(_)
toString(n) ==
    IF n < 10 THEN <<n>> ELSE Append(toString(n \div 10), n % 10)

\* a step of the dialog: it is a UI event, and the state of App is not the
\* dialog's
Dialog(name, A) ==
    /\ events < limit
    /\ events' = events + 1
    /\ limit' = limit
    /\ lastAction' = Did(name, FALSE, FALSE)
    /\ toast' = None
    /\ UNCHANGED <<appState, pendingAuth, now, tz, localStore, storage, remote, saveQ, loads, nextId>>
    /\ A

\* the subtask input's onChange: setNewSubtask(e.target.value)
setNewSubtask(text) ==
    Dialog("setNewSubtask", newSubtask' = text /\ UNCHANGED subtasks)

\* handleAddSubtask with the ids taken from a counter of the subtasks added
\* so far instead of the clock
handleAddSubtask_counterId ==
    LET trimmed == trim(newSubtask)
    IN IF trimmed = << >>
       THEN Dialog("addSubtask", UNCHANGED <<subtasks, newSubtask>>)
       ELSE Dialog("addSubtask",
                   /\ subtasks' = Append(subtasks, [id |-> toString(events),
                                                    title |-> trimmed,
                                                    completed |-> FALSE])
                   /\ newSubtask' = << >>)

handleAddSubtask ==
    LET trimmed == trim(newSubtask)
    IN IF trimmed = << >>
       THEN Dialog("addSubtask", UNCHANGED <<subtasks, newSubtask>>)
       ELSE Dialog("addSubtask",
                   /\ subtasks' = Append(subtasks, [id |-> toString(now),
                                                    title |-> trimmed,
                                                    completed |-> FALSE])
                   /\ newSubtask' = << >>)

handleToggleSubtask(id) ==
    Dialog("toggleSubtask",
           /\ subtasks' = MapSeq(subtasks,
                                 LAMBDA st : IF st.id = id
                                             THEN [st EXCEPT !.completed = ~st.completed]
                                             ELSE st)
           /\ UNCHANGED newSubtask)

handleRemoveSubtask(id) ==
    Dialog("removeSubtask",
           /\ subtasks' = FilterSeq(subtasks, LAMBDA st : st.id # id)
           /\ UNCHANGED newSubtask)

\* the ids of the subtasks the dialog lists, each with a toggle and a remove
\* button
SubtaskIds == {subtasks[i].id : i \in DOMAIN subtasks}

InitDialog == InitWith(MaxDialogEvents)

NextDialog ==
    \/ \E text \in SubtaskTexts : setNewSubtask(text)
    \/ handleAddSubtask
    \/ \E id \in SubtaskIds : handleToggleSubtask(id)
    \/ \E id \in SubtaskIds : handleRemoveSubtask(id)
    \/ Env(Tick)

SpecDialog == InitDialog /\ [][NextDialog]_vars

\* Runs on a device whose localStorage misbehaves: setItem throws while the
\* quota is used up, and the text under the key may have been replaced by
\* one that JSON.parse rejects
MaxStorageEvents == 5

\* the quota of the origin is used up: setItem throws from now on
StorageFills ==
    /\ ~storage.full
    /\ storage' = [storage EXCEPT !.full = TRUE]
    /\ lastAction' = Did("storageFills", FALSE, FALSE)
    /\ UNCHANGED <<appState, pendingAuth, now, tz, localStore, remote, saveQ, loads, nextId>>
    /\ toast' = None

\* room was made: setItem works again
StorageFrees ==
    /\ storage.full
    /\ storage' = [storage EXCEPT !.full = FALSE]
    /\ lastAction' = Did("storageFrees", FALSE, FALSE)
    /\ UNCHANGED <<appState, pendingAuth, now, tz, localStore, remote, saveQ, loads, nextId>>
    /\ toast' = None

\* the text under the key was replaced by one that does not parse
StorageCorrupted ==
    /\ localStore # None
    /\ ~storage.corrupt
    /\ storage' = [storage EXCEPT !.corrupt = TRUE]
    /\ lastAction' = Did("storageCorrupted", FALSE, FALSE)
    /\ UNCHANGED <<appState, pendingAuth, now, tz, localStore, remote, saveQ, loads, nextId>>
    /\ toast' = None

InitStorage == InitWith(MaxStorageEvents)

NextStorage ==
    \/ UIEvent
    \/ Env(Tick)
    \/ Env(StorageFills)
    \/ Env(StorageFrees)
    \/ Env(StorageCorrupted)

SpecStorage == InitStorage /\ [][NextStorage]_vars

\* Runs in which the clock and the remote store keep going on their own:
\* every call to the remote store settles and time passes, while the user
\* is free to do nothing
MaxLiveEvents == 4

InitLive == InitWith(MaxLiveEvents)

SpecLive ==
    /\ InitLive
    /\ [][Next]_vars
    /\ WF_vars(Env(Tick))
    /\ WF_vars(RemoteEvent)

----------------------------------------------------------------------------
(* Properties *)

\* the last step was one of the three XP-granting handlers and it granted
XPGranted ==
    /\ lastAction.name \in {"completeQuest", "habitComplete", "focusComplete"}
    /\ ~lastAction.noop

\* the step from the current state to the next grants XP to a present user
XPGrantingStep ==
    /\ lastAction'.name \in {"completeQuest", "habitComplete", "focusComplete"}
    /\ ~lastAction'.noop
    /\ appState.user # None
    /\ appState'.user # None

(* C1: in every state reached by completing a quest, completing a habit or *)
(* completing a focus session, the user has level >= 1 and                 *)
(* 0 <= xp < xpToNextLevel.                                                *)
C1_LevelAndXPInRange ==
    XPGranted =>
        /\ appState.user # None
        /\ Val(appState.user).level >= 1
        /\ 0 <= Val(appState.user).xp
        /\ Val(appState.user).xp < Val(appState.user).xpToNextLevel

\* an XP grant that carried the user past level 1, part-way into the level
C1_Witness ==
    /\ XPGranted
    /\ Val(appState.user).level >= 2
    /\ Val(appState.user).xp > 0

(* C2: after every XP-granting action, totalXP is the sum of the costs of  *)
(* levels 1 .. level-1 plus xp, and xpToNextLevel is the cost of the       *)
(* current level.                                                          *)
C2_TotalXPDecomposition ==
    XPGranted =>
        LET u == Val(appState.user)
            cost[n \in 0..(u.level - 1)] ==
                IF n = 0 THEN 0 ELSE cost[n - 1] + calculateXPForLevel(n)
        IN /\ u.level >= 1
           /\ u.totalXP = cost[u.level - 1] + u.xp
           /\ u.xpToNextLevel = calculateXPForLevel(u.level)

\* an XP grant that ended on level 3
C2_Witness ==
    /\ XPGranted
    /\ Val(appState.user).level = 3

(* C3: for one user identity, totalXP never decreases from one snapshot to *)
(* the next, whatever the step: a handler, a rollover, the completion of a *)
(* local or remote load.                                                   *)
C3_TotalXPNeverDecreases ==
    [][(/\ appState.user # None
        /\ appState'.user # None
        /\ Val(appState'.user).id = Val(appState.user).id)
          => Val(appState'.user).totalXP >= Val(appState.user).totalXP]_vars

(* C4: the level computed from total XP is non-decreasing in total XP, and *)
(* the user's level never decreases across an XP-granting action.          *)
C4_LevelNeverDecreases ==
    [][XPGrantingStep =>
        LET before == Val(appState.user)
            after == Val(appState'.user)
        IN /\ after.level >= before.level
           /\ \A x \in before.totalXP..after.totalXP :
                /\ calculateLevel(before.totalXP) <= calculateLevel(x)
                /\ calculateLevel(x) <= calculateLevel(after.totalXP)]_vars

\* a focus session granted XP to a user who is on level 4 or above
C4_Witness ==
    /\ lastAction = Did("focusComplete", FALSE, FALSE)
    /\ Val(appState.user).level >= 4

\* the badges of the next snapshot keep every badge that is unlocked now
BadgesStayUnlocked ==
    \A i \in DOMAIN appState.badges :
        ~appState.badges[i].isLocked =>
            \A j \in DOMAIN appState'.badges :
                appState'.badges[j].id = appState.badges[i].id
                    => ~appState'.badges[j].isLocked

C6_StreakInvariant ==
    \A i \in DOMAIN appState.habits :
        /\ appState.habits[i].longestStreak >= appState.habits[i].currentStreak
        /\ appState.habits[i].currentStreak >= 0

\* a created habit was completed and the completion undone
C6_Witness ==
    /\ lastAction.name = "habitUndo"
    /\ \E i \in DOMAIN appState.habits :
         /\ appState.habits[i].id[1] = "habit"
         /\ appState.habits[i].longestStreak = 1
         /\ appState.habits[i].currentStreak = 0

\* the calendar day of the clock in the viewer's timezone
TodayKey == toLocalDateKey(now, tz)

(* C7: the rollover is idempotent within a day: with lastDailyReset equal  *)
(* to today's key it returns the snapshot unchanged, whatever was          *)
(* completed since, and a second run after any run changes nothing.        *)
C7_RolloverIdempotent ==
    LET once == dailyRollover(appState, TodayKey, now, tz)
        completedSince ==
            {appState} \cup
            {[appState EXCEPT !.quests[i].status = "completed",
                              !.quests[i].completedAt = Some(now)] :
                i \in DOMAIN appState.quests}
    IN /\ \A s \in completedSince :
            s.lastDailyReset = Some(TodayKey) => dailyRollover(s, TodayKey, now, tz) = s
       /\ dailyRollover(once, TodayKey, now, tz) = once

\* a daily quest was completed on the day of the last reset, and the
\* rollover effect that ran after the completion changed nothing
C7_Witness ==
    /\ lastAction = Did("completeQuest", FALSE, FALSE)
    /\ appState.lastDailyReset = Some(TodayKey)
    /\ \E i \in DOMAIN appState.quests :
         appState.quests[i].isDaily /\ appState.quests[i].status = "completed"

\* every daily quest of s is pending, not completed, due on the day k, with
\* every subtask incomplete, and s was last reset on the day k
DailyQuestsReset(s, k) ==
    /\ s.lastDailyReset = Some(k)
    /\ \A i \in DOMAIN s.quests :
         s.quests[i].isDaily =>
            /\ s.quests[i].status = "pending"
            /\ s.quests[i].completedAt = None
            /\ s.quests[i].dueDate # None
            /\ isoToLocalDateKey(Val(s.quests[i].dueDate), tz) = k
            /\ \A j \in DOMAIN s.quests[i].subtasks : ~s.quests[i].subtasks[j].completed

(* C8: with a user present and lastDailyReset absent or different from     *)
(* today's key, the rollover makes every daily quest pending with          *)
(* completedAt cleared, dueDate on today and every subtask incomplete, and *)
(* sets lastDailyReset to today's key.                                     *)
C8_RolloverResetsDailies ==
    /\ (appState.user # None /\ appState.lastDailyReset # Some(TodayKey))
          => DailyQuestsReset(dailyRollover(appState, TodayKey, now, tz), TodayKey)
    /\ lastAction.rolled => DailyQuestsReset(appState, TodayKey)

\* the rollover ran on the second day, after a focus session
C8_Witness ==
    /\ lastAction = Did("focusComplete", FALSE, TRUE)
    /\ appState.lastDailyReset = Some(1)
    /\ \E i \in DOMAIN appState.quests : appState.quests[i].isDaily

\* r differs from s in the daily quests and lastDailyReset at most
RolloverFrame(s, r) ==
    /\ r.user = s.user
    /\ r.habits = s.habits
    /\ r.focusSessions = s.focusSessions
    /\ r.badges = s.badges
    /\ r.moodByDate = s.moodByDate
    /\ r.currentPage = s.currentPage
    /\ r.isOnboarded = s.isOnboarded
    /\ Len(r.quests) = Len(s.quests)
    /\ \A i \in DOMAIN s.quests :
         /\ r.quests[i].id = s.quests[i].id
         /\ ~s.quests[i].isDaily => r.quests[i] = s.quests[i]

(* C9: the rollover leaves every non-daily quest, the user, the habits,    *)
(* the focus sessions, the badges and the moods unchanged, and with no     *)
(* user it changes nothing at all.                                         *)
C9_RolloverFrame ==
    \A k \in {TodayKey, TodayKey + 1} :
        LET r == dailyRollover(appState, k, now, tz)
        IN /\ RolloverFrame(appState, r)
           /\ appState.user = None => r = appState

\* the rollover ran after the completion of a non-daily quest and left the
\* quest completed
C9_Witness ==
    /\ lastAction = Did("completeQuest", FALSE, TRUE)
    /\ \E i \in DOMAIN appState.quests :
         ~appState.quests[i].isDaily /\ appState.quests[i].status = "completed"

\* the whole snapshot, in memory and stored, and the calls in flight
Snapshot == <<appState, localStore, remote, saveQ, loads, pendingAuth, nextId>>

(* C10: completing a quest with an unknown id or no user, toggling a habit *)
(* with an unknown id or no user, completing a focus session with no user  *)
(* and updating the profile with no user leave the whole snapshot          *)
(* unchanged.                                                              *)
C10_SilentNoOps ==
    [][/\ \A id \in QuestIdsOf(appState) \cup {MissingId} :
            (/\ handleCompleteQuest(id)
             /\ (id \notin QuestIdsOf(appState) \/ appState.user = None))
                => UNCHANGED Snapshot
       /\ \A id \in HabitIdsOf(appState) \cup {MissingId} :
            (/\ handleToggleHabit(id)
             /\ (id \notin HabitIdsOf(appState) \/ appState.user = None))
                => UNCHANGED Snapshot
       /\ \A f \in FocusInputs :
            (handleFocusComplete(f.duration, f.xpEarned) /\ appState.user = None)
                => UNCHANGED Snapshot
       /\ \A name \in Names :
            (handleUpdateProfile(name) /\ appState.user = None)
                => UNCHANGED Snapshot]_vars

\* a quest with an unknown id was completed while a user with quests was
\* signed in
C10_Witness ==
    /\ lastAction = Did("completeQuest", TRUE, FALSE)
    /\ appState.user # None
    /\ appState.quests # << >>

HabitBefore(id) == Val(FindById(appState.habits, id))
HabitAfter(id) == Val(FindById(appState'.habits, id))

\* the habit has a completion on the viewer's calendar day of now
CompletedOnLocalDay(h) ==
    \E i \in DOMAIN h.completedDates : isoToLocalDateKey(h.completedDates[i], tz) = TodayKey

\* the step toggles the habit with the id, with a user present
TogglesHabit(id) ==
    /\ id \in HabitIdsOf(appState)
    /\ appState.user # None
    /\ handleToggleHabit(id)

\* every habit but the one with the id is the same after the step
OtherHabitsUnchanged(id) ==
    /\ Len(appState'.habits) = Len(appState.habits)
    /\ \A i \in DOMAIN appState.habits :
         appState.habits[i].id # id => appState'.habits[i] = appState.habits[i]

(* C12: toggling a habit that is not yet completed today appends one       *)
(* completion timestamp, increments currentStreak, sets longestStreak to   *)
(* the max of itself and the new streak, adds xpPerCompletion to totalXP   *)
(* and leaves every other habit unchanged.                                 *)
C12_ToggleCompletes ==
    [][\A id \in HabitIdsOf(appState) :
        (TogglesHabit(id) /\ ~CompletedOnLocalDay(HabitBefore(id))) =>
            /\ HabitAfter(id).completedDates = Append(HabitBefore(id).completedDates, now)
            /\ HabitAfter(id).currentStreak = HabitBefore(id).currentStreak + 1
            /\ HabitAfter(id).longestStreak =
                  Max(HabitBefore(id).longestStreak, HabitBefore(id).currentStreak + 1)
            /\ Val(appState'.user).totalXP =
                  Val(appState.user).totalXP + HabitBefore(id).xpPerCompletion
            /\ OtherHabitsUnchanged(id)]_vars

(* C13: toggling a habit already completed today is an undo: it removes    *)
(* today's completion entries, decrements currentStreak floored at 0 and   *)
(* leaves totalXP, xp and level unchanged.                                 *)
C13_ToggleUndoes ==
    [][\A id \in HabitIdsOf(appState) :
        (TogglesHabit(id) /\ CompletedOnLocalDay(HabitBefore(id))) =>
            /\ HabitAfter(id).completedDates =
                  SelectSeq(HabitBefore(id).completedDates,
                            LAMBDA d : isoToLocalDateKey(d, tz) # TodayKey)
            /\ HabitAfter(id).currentStreak = Max(0, HabitBefore(id).currentStreak - 1)
            /\ Val(appState'.user).totalXP = Val(appState.user).totalXP
            /\ Val(appState'.user).xp = Val(appState.user).xp
            /\ Val(appState'.user).level = Val(appState.user).level]_vars

\* the habit's latest completion was made on the viewer's calendar day of
\* now: the toggle at hand is the second of the day, after a completion
CompletedEarlierToday(h) ==
    /\ h.completedDates # << >>
    /\ isoToLocalDateKey(h.completedDates[Len(h.completedDates)], tz) = TodayKey

(* C14: toggling the same habit twice in the same day (complete, then      *)
(* undo) restores the habit's currentStreak and completedDates to their    *)
(* values before the first toggle.                                         *)
C14_ToggleTwiceRestoresHabit ==
    [][\A id \in HabitIdsOf(appState) :
        (TogglesHabit(id) /\ CompletedEarlierToday(HabitBefore(id))) =>
            /\ HabitAfter(id).completedDates =
                  SubSeq(HabitBefore(id).completedDates, 1,
                         Len(HabitBefore(id).completedDates) - 1)
            /\ HabitAfter(id).currentStreak = HabitBefore(id).currentStreak - 1]_vars

(* C15 as stated: toggling the same habit twice in the same day has zero   *)
(* net XP change: totalXP, xp and level after the second toggle are what   *)
(* they were before the first, that is, before the completion's grant.     *)
C15_ToggleTwiceZeroNetXP ==
    [][\A id \in HabitIdsOf(appState) :
        (TogglesHabit(id) /\ CompletedEarlierToday(HabitBefore(id))) =>
            LET before == Val(appState.user).totalXP - HabitBefore(id).xpPerCompletion
            IN /\ Val(appState'.user).totalXP = before
               /\ Val(appState'.user).level = calculateLevel(before)
               /\ Val(appState'.user).xp =
                     before - xpForCurrentLevel(1, calculateLevel(before))]_vars

(* C15 amended: a completion followed by an undo of the same habit nets    *)
(* the completion's xpPerCompletion: the undo leaves totalXP, xp and level *)
(* (the whole user) as the completion left them.                           *)
C15_UndoKeepsGrantedXP ==
    [][\A id \in HabitIdsOf(appState) :
        (TogglesHabit(id) /\ isCompletedToday(HabitBefore(id), now)) =>
            /\ lastAction'.name = "habitUndo"
            /\ appState'.user = appState.user]_vars

\* the seeded habit was completed and the completion undone by a user
\* without other XP: the 10 XP of the completion are still there
C15_Witness ==
    /\ lastAction.name = "habitUndo"
    /\ appState.user # None
    /\ Val(appState.user).totalXP = 10
    /\ appState.focusSessions = << >>
    /\ completedQuestsCount(appState) = 0

(* C16: toggle habit decides "already completed today" with the local      *)
(* date key of the rollover: a habit is treated as completed today exactly *)
(* when it has a completion whose local date key is the local date key of  *)
(* now.                                                                    *)
C16_CompletedTodayByLocalKey ==
    \A i \in DOMAIN appState.habits :
        isCompletedToday(appState.habits[i], now) <=> CompletedOnLocalDay(appState.habits[i])

\* the rows of the badge table, on the requirement texts of the badge set
BadgeTableMet(state, badge) ==
    LET done == Cardinality({i \in DOMAIN state.quests : state.quests[i].status = "completed"})
        focused == Cardinality({i \in DOMAIN state.focusSessions :
                                   state.focusSessions[i].completed})
    IN \/ badge.requirement = "Complete 1 quest" /\ done >= 1
       \/ badge.requirement = "Maintain a 7-day streak"
            /\ \E i \in DOMAIN state.habits : state.habits[i].longestStreak >= 7
       \/ badge.requirement = "Complete 50 quests" /\ done >= 50
       \/ badge.requirement = "Complete 100 focus sessions" /\ focused >= 100
       \/ badge.requirement = "Reach Level 50" /\ Val(state.user).level >= 50

(* C17: badge evaluation with a user present unlocks a locked badge, with  *)
(* unlockedAt stamped, exactly when its requirement and the snapshot meet  *)
(* a row of the table (1 quest, 7-day streak, 50 quests, 100 focus         *)
(* sessions, level 50); otherwise, and with no user, the badge is returned *)
(* unchanged.                                                              *)
C17_BadgeTable ==
    [][lastAction'.name = "evaluateBadges" =>
        /\ DOMAIN appState'.badges = DOMAIN appState.badges
        /\ \A i \in DOMAIN appState.badges :
             LET badge == appState.badges[i]
             IN appState'.badges[i] =
                  IF badge.isLocked /\ appState.user # None /\ BadgeTableMet(appState, badge)
                  THEN [badge EXCEPT !.isLocked = FALSE, !.unlockedAt = Some(now)]
                  ELSE badge]_vars

\* an evaluation after the first tick unlocked the badges of 50 quests, 100
\* focus sessions and level 50 for a user exactly on the thresholds
C17_Witness ==
    /\ lastAction.name = "evaluateBadges"
    /\ now > 0
    /\ appState.user # None
    /\ Val(appState.user).level = 50
    /\ Len(appState.quests) = 51
    /\ Len(appState.focusSessions) = 100
    /\ \A i \in DOMAIN appState.badges :
         appState.badges[i].id \in {"b3", "b4", "b5"} =>
            ~appState.badges[i].isLocked /\ appState.badges[i].unlockedAt = Some(now)

\* the badge with the id in the snapshot
BadgeOf(state, id) == state.badges[CHOOSE i \in DOMAIN state.badges : state.badges[i].id = id]

DoneCount(state) ==
    Cardinality({i \in DOMAIN state.quests : state.quests[i].status = "completed"})

\* the step installs a stored snapshot: a reload, a remote load, a sign-in
InstallsStoredSnapshot == lastAction'.name \in {"restart", "remoteLoaded", "authLoaded"}

(* C18 as stated: the "Complete 1 quest" badge is locked in every          *)
(* reachable state where the completed-quest count is 0, and unlocked in   *)
(* the state in which the count first becomes 1, whichever action causes   *)
(* the transition.                                                         *)
C18_FirstQuestBadgeFollowsCount ==
    [][/\ DoneCount(appState') = 0 => BadgeOf(appState', "b1").isLocked
       /\ (DoneCount(appState) = 0 /\ DoneCount(appState') = 1)
             => ~BadgeOf(appState', "b1").isLocked]_vars

(* C18 amended: the "Complete 1 quest" badge is unlocked in the state in   *)
(* which the completed-quest count leaves 0, whichever action causes that, *)
(* and not before: a locked badge stays locked over every step that ends   *)
(* with a count of 0, unless the step installs a stored snapshot or the    *)
(* rollover of the same render reset the quest just completed. It is not   *)
(* locked in every state with a count of 0: unlocked, it stays so when     *)
(* delete, a reverting edit or the rollover takes the count back to 0.     *)
C18_FirstQuestBadgeUnlocksOnFirstCompletion ==
    [][/\ (DoneCount(appState) = 0 /\ DoneCount(appState') >= 1)
             => ~BadgeOf(appState', "b1").isLocked
       /\ (/\ BadgeOf(appState, "b1").isLocked
           /\ DoneCount(appState') = 0
           /\ ~InstallsStoredSnapshot
           /\ ~lastAction'.rolled)
             => BadgeOf(appState', "b1").isLocked
       /\ (/\ ~BadgeOf(appState, "b1").isLocked
           /\ lastAction'.name \in {"questSave", "questDelete"})
             => ~BadgeOf(appState', "b1").isLocked]_vars

\* the only completed quest was reverted to pending by a detail edit and
\* the badge is still unlocked
C18_Witness ==
    /\ lastAction.name = "questSave"
    /\ DoneCount(appState) = 0
    /\ ~BadgeOf(appState, "b1").isLocked

\* the handlers that end with a badge evaluation
EvaluatesBadges ==
    /\ ~lastAction'.noop
    /\ lastAction'.name \in {"completeQuest", "habitUndo", "habitComplete", "focusComplete"}

(* C20: a badge that has an unlockedAt keeps it, and stays unlocked, over  *)
(* every later badge evaluation: the one after a quest completion, after a *)
(* habit toggle in either direction, and after a focus session.            *)
C20_UnlockedAtIsKept ==
    [][EvaluatesBadges =>
         /\ Len(appState'.badges) = Len(appState.badges)
         /\ \A i \in DOMAIN appState.badges :
              appState.badges[i].unlockedAt # None
                 => /\ appState'.badges[i].id = appState.badges[i].id
                    /\ appState'.badges[i].unlockedAt = appState.badges[i].unlockedAt
                    /\ ~appState'.badges[i].isLocked]_vars

\* the first-quest badge was unlocked at minute 0; a focus session finished
\* half a day later, with its condition still met, and the stamp is still 0
C20_Witness ==
    /\ lastAction.name = "focusComplete"
    /\ ~lastAction.noop
    /\ now = TickMinutes
    /\ DoneCount(appState) >= 1
    /\ BadgeOf(appState, "b1").unlockedAt = Some(0)

(* C21: creating a quest, by the dialog or from a template, appends        *)
(* exactly one quest with a fresh id, status pending and xpReward the      *)
(* reward of its difficulty; the quests that were there and every other    *)
(* part of the snapshot are unchanged.                                     *)
C21_CreateQuestAppendsOne ==
    [][lastAction'.name \in {"createQuest", "addQuestAI"} =>
         /\ Len(appState'.quests) = Len(appState.quests) + 1
         /\ SubSeq(appState'.quests, 1, Len(appState.quests)) = appState.quests
         /\ LET q == appState'.quests[Len(appState'.quests)]
            IN /\ q.status = "pending"
               /\ q.completedAt = None
               /\ q.xpReward = getXPForDifficulty(q.difficulty)
               /\ q.id \notin QuestIdsOf(appState)
         /\ [appState' EXCEPT !.quests = appState.quests] = appState]_vars

\* a hard quest was created by the dialog after another quest had been
\* completed: it is the last quest, pending, worth 50, and the completed
\* quest is still completed
C21_Witness ==
    /\ lastAction.name = "createQuest"
    /\ Len(appState.quests) = 3
    /\ appState.quests[3].difficulty = "hard"
    /\ appState.quests[3].status = "pending"
    /\ appState.quests[3].xpReward = 50
    /\ \E i \in 1..2 : appState.quests[i].status = "completed"

(* C22: a focus completion with a user present appends exactly one session *)
(* record: completed, with the duration and the XP the timer handed over,  *)
(* ending now and starting duration minutes before now, and the user's     *)
(* totalXP grows by the record's xpEarned.  No step of any kind changes a  *)
(* session record that is already there: a record found under the same id  *)
(* after the step is the same record.                                      *)
C22_FocusSessionAppended ==
    [][/\ (lastAction'.name = "focusComplete" /\ ~lastAction'.noop) =>
            /\ appState.user # None
            /\ Len(appState'.focusSessions) = Len(appState.focusSessions) + 1
            /\ SubSeq(appState'.focusSessions, 1, Len(appState.focusSessions))
                  = appState.focusSessions
            /\ LET fs == appState'.focusSessions[Len(appState'.focusSessions)]
               IN /\ fs.completed
                  /\ [duration |-> fs.duration, xpEarned |-> fs.xpEarned]
                        \in FocusInputs \cup WideFocusInputs
                  /\ fs.endTime = now
                  /\ fs.startTime = now - fs.duration
                  /\ \A i \in DOMAIN appState.focusSessions :
                        appState.focusSessions[i].id # fs.id
                  /\ Val(appState'.user).totalXP = Val(appState.user).totalXP + fs.xpEarned
       /\ \A i \in DOMAIN appState.focusSessions, j \in DOMAIN appState'.focusSessions :
            appState'.focusSessions[j].id = appState.focusSessions[i].id
               => appState'.focusSessions[j] = appState.focusSessions[i]]_vars

\* a second focus session was completed half a day after the first: the
\* first record is as it was written, the second ends at minute 720 and
\* starts at 695, and the user has the XP of both
C22_Witness ==
    /\ lastAction.name = "focusComplete"
    /\ ~lastAction.noop
    /\ Len(appState.focusSessions) = 2
    /\ appState.focusSessions[1].endTime = 0
    /\ appState.focusSessions[2].endTime = TickMinutes
    /\ appState.focusSessions[2].startTime = TickMinutes - 25
    /\ Val(appState.user).totalXP = 100

(* C23: logout replaces the snapshot by the anonymous default: no user, no  *)
(* quests, habits or focus sessions, the default badge set (every badge    *)
(* locked, none stamped), the landing page, not onboarded, and neither a   *)
(* lastDailyReset nor a mood of the session that ended.                    *)
C23_LogoutResets ==
    [][lastAction'.name = "logout" =>
         /\ appState.user # None
         /\ appState'.user = None
         /\ appState'.quests = << >>
         /\ appState'.habits = << >>
         /\ appState'.focusSessions = << >>
         /\ appState'.badges = mockBadges
         /\ \A i \in DOMAIN appState'.badges :
               appState'.badges[i].isLocked /\ appState'.badges[i].unlockedAt = None
         /\ appState'.currentPage = "landing"
         /\ ~appState'.isOnboarded
         /\ appState'.lastDailyReset = None
         /\ appState'.moodByDate = {}
         /\ appState' = InitialAppState]_vars

\* a user who was reset today, noted a mood and completed a quest has
\* logged out: the snapshot is the default, the stored one still has the
\* mood, the reset day and the unlocked badge
C23_Witness ==
    /\ lastAction.name = "logout"
    /\ appState = InitialAppState
    /\ localStore # None
    /\ Val(localStore).moodByDate # {}
    /\ Val(localStore).lastDailyReset # None
    /\ ~BadgeOf(Val(localStore), "b1").isLocked

\* the last state the save effects handed to saveToFirebase
LastSaveIssued == saveQ[Len(saveQ)].state

(* C24: the local load never fails its caller: with nothing under the key, *)
(* or a text that does not parse, the mount effect gets null and the       *)
(* snapshot is the initial one; with a parsable text the stored snapshot   *)
(* is installed.  A local save that fails is swallowed: the stored text    *)
(* stays, the snapshot in memory is the one the handler produced, and the  *)
(* effects after the local save still run.                                 *)
C24_LocalStorageFailuresSwallowed ==
    [][/\ lastAction'.name = "restart" =>
            IF localStore = None \/ storage.corrupt
            THEN appState' = InitialAppState /\ localStore' = localStore /\ storage' = storage
            ELSE appState'.user = Val(localStore).user
       /\ (storage.full /\ events' # events) =>
            /\ localStore' = localStore
            /\ storage' = storage
            /\ (~lastAction'.noop /\ appState'.user # None) =>
                  /\ saveQ' # << >>
                  /\ LastSaveIssued' = appState'
            /\ lastAction'.name \in {"createQuest", "addQuestAI"} =>
                  Len(appState'.quests) = Len(appState.quests) + 1
            /\ lastAction'.name = "logout" => appState' = InitialAppState]_vars

\* the page was reloaded over a text that does not parse: the snapshot is
\* the initial one although a snapshot with a user had been stored
C24_Witness ==
    /\ lastAction.name = "restart"
    /\ storage.corrupt
    /\ localStore # None
    /\ Val(localStore).user # None
    /\ appState = InitialAppState

\* the step is a render: a handler or a load completion called setAppState
IsRender ==
    lastAction'.name \notin {"tick", "saveLands", "saveFails", "remoteRead"}

StartsRemoteLoad == \E l \in loads' \ loads : l.phase = "sent"

(* C26: a remote load is started only when authentication resolves (the    *)
(* sign-in of a returning user, the onboarding of a new one) and when the  *)
(* page starts with a stored session; no handler and no completed remote   *)
(* load starts another one.                                                *)
C26_RemoteLoadOnlyAtAuthOrStart ==
    [][StartsRemoteLoad => lastAction'.name \in {"authLoaded", "onboarding", "restart"}]_vars

\* the ids of the records of a sequence
IdsOf(seq) == {seq[i].id : i \in DOMAIN seq}

(* C27: every update is applied to the latest snapshot, so none discards   *)
(* the change of another.  No handler removes a habit or a focus session   *)
(* of the signed-in user, so while the same user stays signed in every     *)
(* habit and every focus session of the snapshot before a step is in the   *)
(* snapshot after it.                                                      *)
C27_NoUpdateDiscarded ==
    [][(/\ appState.user # None
        /\ appState'.user # None
        /\ Val(appState'.user).id = Val(appState.user).id) =>
          /\ IdsOf(appState.focusSessions) \subseteq IdsOf(appState'.focusSessions)
          /\ IdsOf(appState.habits) \subseteq IdsOf(appState'.habits)]_vars

\* a user is present and the snapshot was last reset on another local day
\* than today
NeedsRollover ==
    /\ appState.user # None
    /\ appState.lastDailyReset # Some(TodayKey)

(* C28: when the local day advances while a user is present, the rollover  *)
(* eventually runs, lastDailyReset becoming today's key, without any       *)
(* action of the user: the clock and the remote store alone get it there.  *)
C28_RolloverEventuallyRuns == NeedsRollover ~> ~NeedsRollover

(* C29: completing a quest reports "level up" exactly when the level of    *)
(* the user after the step is above the level before it, and otherwise     *)
(* reports "quest complete" with the XP until the next level: the new      *)
(* xpToNextLevel minus the new xp.                                         *)
C29_QuestOutcomeSignal ==
    [][(lastAction'.name = "completeQuest" /\ ~lastAction'.noop) =>
         /\ toast' # None
         /\ LET before == Val(appState.user)
                after == Val(appState'.user)
                signal == Val(toast')
            IN IF after.level > before.level
               THEN signal.kind = "levelUp" /\ signal.level = after.level
               ELSE /\ signal.kind = "questComplete"
                    /\ signal.untilNext = after.xpToNextLevel - after.xp
                    /\ signal.nextLevel = after.level + 1]_vars

\* the hard quest took a user with 50 XP or more to level 2: the step
\* reported the level-up to level 2
C29_Witness ==
    /\ lastAction.name = "completeQuest"
    /\ ~lastAction.noop
    /\ toast # None
    /\ Val(toast).kind = "levelUp"
    /\ Val(toast).level = 2
    /\ Val(appState.user).level = 2

\* a quest completed on level 2 without reaching level 3 reported "quest
\* complete" with the XP left until level 3
C29_WitnessNoLevelUp ==
    /\ lastAction.name = "completeQuest"
    /\ ~lastAction.noop
    /\ toast # None
    /\ Val(toast).kind = "questComplete"
    /\ Val(appState.user).level = 2
    /\ Val(toast).untilNext = 200 - Val(appState.user).xp

\* the step unlocked a badge
UnlocksBadge ==
    \E i \in DOMAIN appState.badges :
        /\ i \in DOMAIN appState'.badges
        /\ appState.badges[i].isLocked
        /\ ~appState'.badges[i].isLocked

\* the step raised the user's level
RaisesLevel ==
    /\ appState.user # None
    /\ appState'.user # None
    /\ Val(appState'.user).level > Val(appState.user).level

(* C30: a quest completion, habit completion or focus completion that      *)
(* raises the user's level reports a level-up, and one that unlocks a      *)
(* badge reports the unlocked badge, besides the XP gained.                *)
C30_LevelUpAndBadgeReported ==
    [][(/\ lastAction'.name \in {"completeQuest", "habitComplete", "focusComplete"}
        /\ ~lastAction'.noop) =>
          /\ toast' # None
          /\ Val(toast').xp > 0
          /\ RaisesLevel => Val(toast').kind = "levelUp"
          /\ UnlocksBadge => Val(toast').kind = "badgeUnlocked"]_vars

\* the fixed texts of the four error kinds the sign-in form shows
InvalidCredentialsText == "Email atau password salah."
EmailRegisteredText == "Email ini sudah terdaftar. Coba Sign In."
WeakPasswordText == "Password terlalu lemah (minimal 6 karakter)."
ProviderNotEnabledText ==
    "Provider Auth belum diaktifkan di Firebase Console (Enable Email/Password di Authentication)."

(* C31: a failed sign-in or sign-up reports one of the four fixed kinds     *)
(* for the four codes (invalid credentials, email already registered, weak  *)
(* password, provider not enabled) and, for any other error, a generic      *)
(* failure with the provider's raw message; the snapshot, the pending       *)
(* identity and both stores are as before.                                  *)
C31_AuthFailureMapped ==
    [][lastAction'.name = "authFailed" =>
         /\ toast' # None
         /\ Val(toast').kind = "loginFailed"
         /\ LET err == Val(toast').logged
                shown == Val(toast').description
            IN /\ err.code = "auth/invalid-login-credentials" => shown = InvalidCredentialsText
               /\ err.code = "auth/email-already-in-use" => shown = EmailRegisteredText
               /\ err.code = "auth/weak-password" => shown = WeakPasswordText
               /\ err.code = "auth/operation-not-allowed" => shown = ProviderNotEnabledText
               /\ err.code \notin {"auth/invalid-login-credentials", "auth/email-already-in-use",
                                   "auth/weak-password", "auth/operation-not-allowed"}
                     => shown = err.message
         /\ UNCHANGED <<appState, pendingAuth, localStore, remote, saveQ, loads>>]_vars

\* a sign-in was rejected for too many requests, a code the form does not
\* know: the provider's message is shown and the app is still on the auth
\* page without a user or a pending identity
C31_Witness ==
    /\ lastAction.name = "authFailed"
    /\ toast # None
    /\ Val(toast).logged.code = "auth/too-many-requests"
    /\ Val(toast).description = "Firebase: Error (auth/too-many-requests)."
    /\ appState.currentPage = "auth"
    /\ appState.user = None
    /\ pendingAuth = None

CompletedDays(h) == {toLocalDateKey(h.completedDates[i], tz) : i \in DOMAIN h.completedDates}

\* the number of consecutive days, going back from day, that are in days
RECURSIVE RunEndingOn(_, _)
RunEndingOn(days, day) ==
    IF day \in days THEN 1 + RunEndingOn(days, day - 1) ELSE 0

\* the streak of the habit today: the run of completed days that ends today
\* or, with today not completed yet, yesterday
StreakOf(h, today) ==
    IF today \in CompletedDays(h)
    THEN RunEndingOn(CompletedDays(h), today)
    ELSE RunEndingOn(CompletedDays(h), today - 1)

(* C33: the currentStreak of a habit is the number of consecutive days,    *)
(* ending today or yesterday, on which it was marked complete without a    *)
(* gap; a completion after missed days gives 1.  Stated for the habits the *)
(* user added, whose whole history is in completedDates.                   *)
C33_StreakCountsConsecutiveDays ==
    \A i \in DOMAIN appState.habits :
        LET h == appState.habits[i]
        IN h.id[1] = "habit" => h.currentStreak = StreakOf(h, TodayKey)

(* C34: a quest grants its XP at most once per pending-to-completed        *)
(* transition: complete quest invoked on a quest whose status is already   *)
(* completed does not add its xpReward to the user's totalXP again.        *)
C34_QuestXPGrantedOnce ==
    [][\A id \in QuestIdsOf(appState) :
        (/\ handleCompleteQuest(id)
         /\ appState.user # None
         /\ Val(FindById(appState.quests, id)).status = "completed")
            => /\ appState'.user # None
               /\ Val(appState'.user).totalXP = Val(appState.user).totalXP]_vars

\* every completed non-daily quest of the snapshot is completed in the next
\* one (a daily quest may be reset by the rollover that follows the load)
CompletionsKept ==
    \A i \in DOMAIN appState.quests :
        LET q == appState.quests[i]
        IN (q.status = "completed" /\ ~q.isDaily) =>
              \E j \in DOMAIN appState'.quests :
                  /\ appState'.quests[j].id = q.id
                  /\ appState'.quests[j].status = "completed"

\* every habit of the snapshot is in the next one with the same completions
\* and the same streak
HabitTogglesKept ==
    \A i \in DOMAIN appState.habits :
        LET h == appState.habits[i]
        IN \E j \in DOMAIN appState'.habits :
              /\ appState'.habits[j].id = h.id
              /\ appState'.habits[j].completedDates = h.completedDates
              /\ appState'.habits[j].currentStreak = h.currentStreak

(* C35: the installation of a remote load result does not discard what    *)
(* was done while the load was in flight: for the same user, every quest   *)
(* completion, habit toggle and focus session of the snapshot before the   *)
(* installation is in the snapshot after it, and no XP is lost.            *)
C35_LoadKeepsInFlightActions ==
    [][(/\ lastAction'.name = "remoteLoaded"
        /\ appState.user # None
        /\ appState'.user # None
        /\ Val(appState'.user).id = Val(appState.user).id) =>
          /\ CompletionsKept
          /\ HabitTogglesKept
          /\ IdsOf(appState.focusSessions) \subseteq IdsOf(appState'.focusSessions)
          /\ Val(appState'.user).totalXP >= Val(appState.user).totalXP]_vars

(* C36: after logout the locally persisted snapshot no longer holds the    *)
(* user who logged out, and a reload of the page right after the logout    *)
(* (load from local storage on mount) does not bring a user back.          *)
C36_LogoutClearsLocalSnapshot ==
    [][/\ lastAction'.name = "logout" =>
            \/ localStore' = None
            \/ Val(localStore').user = None
       /\ (lastAction.name = "logout" /\ lastAction'.name = "restart") =>
            appState'.user = None]_vars

\* the last n calls of a sequence of calls
LastCalls(q, n) == IF Len(q) <= n THEN q ELSE SubSeq(q, Len(q) - n + 1, Len(q))

\* the saveToFirebase call for the snapshot after the step
SaveOfNext == [uid |-> Val(appState'.user).id, state |-> appState']

(* C37: every render that produces a snapshot with a user saves that whole *)
(* snapshot once locally and once remotely, the remote call addressed by   *)
(* the snapshot's user id (a render followed by a rollover render saves    *)
(* twice, the second time the rolled snapshot); a render that produces a   *)
(* snapshot without a user saves nothing; and no call in flight, no remote *)
(* document and no stored snapshot is one without a user or under another  *)
(* id than its user's.                                                     *)
C37_EverySnapshotChangeSaved ==
    [][/\ (IsRender /\ ~lastAction'.noop /\ events' # events) =>
            IF appState'.user # None
            THEN /\ localStore' = Some(appState')
                 /\ saveQ' # << >>
                 /\ saveQ'[Len(saveQ')] = SaveOfNext
                 /\ ~lastAction'.rolled =>
                       saveQ' = LastCalls(saveQ \o <<SaveOfNext>>, MaxPendingSaves)
                 /\ lastAction'.rolled =>
                       /\ Len(saveQ') = Len(LastCalls(saveQ \o <<SaveOfNext, SaveOfNext>>,
                                                     MaxPendingSaves))
                       /\ \A i \in DOMAIN saveQ' :
                            i + 2 <= Len(saveQ') => saveQ'[i] \in {saveQ[k] : k \in DOMAIN saveQ}
            ELSE /\ localStore' = localStore
                 /\ saveQ' = saveQ
       /\ \A i \in DOMAIN saveQ' :
            /\ saveQ'[i].state.user # None
            /\ saveQ'[i].uid = Val(saveQ'[i].state.user).id
       /\ \A u \in Uids :
            remote'[u] # None =>
                /\ Val(remote'[u]).user # None
                /\ Val(Val(remote'[u]).user).id = u
       /\ localStore' # None => Val(localStore').user # None]_vars

\* a quest was completed by a user whose document is in the remote store:
\* the snapshot with the completed quest is the stored one and the one of
\* the call in flight, under the user's id
C37_Witness ==
    /\ lastAction.name = "completeQuest"
    /\ ~lastAction.noop
    /\ appState.user # None
    /\ localStore = Some(appState)
    /\ saveQ # << >>
    /\ saveQ[Len(saveQ)] = [uid |-> Val(appState.user).id, state |-> appState]
    /\ remote[Val(appState.user).id] # None
    /\ Val(remote[Val(appState.user).id]) # appState

\* the user logged out: the reset snapshot was saved nowhere
C37_WitnessLogout ==
    /\ lastAction.name = "logout"
    /\ appState.user = None
    /\ localStore # None
    /\ Val(localStore).user # None

\* the remote store holds a snapshot with a user for the identity
HasRemoteSnapshot(uid) == remote[uid] # None /\ Val(remote[uid]).user # None

\* the sign-in installed the remote snapshot of the identity on the
\* dashboard, onboarded (followed by the rollover of that snapshot when its
\* reset day is not today), and no identity is pending
SignedInAs(uid) ==
    LET loaded == [Val(remote[uid]) EXCEPT !.currentPage = "dashboard", !.isOnboarded = TRUE]
    IN /\ appState' \in {loaded, dailyRollover(loaded, TodayKey, now, tz)}
       /\ appState'.user = Val(remote[uid]).user
       /\ appState'.currentPage = "dashboard"
       /\ appState'.isOnboarded
       /\ pendingAuth' = None

\* the sign-in left the user absent, recorded the identity as pending and
\* went to the onboarding page, the rest of the snapshot as it was
SentToOnboarding(uid) ==
    /\ appState.user = None
    /\ appState'.user = None
    /\ pendingAuth' # None
    /\ Val(pendingAuth').uid = uid
    /\ appState' = [appState EXCEPT !.currentPage = "onboarding"]

\* completing onboarding creates a user with the id of the pending identity
OnboardsPendingIdentity ==
    lastAction'.name = "onboarding" =>
        /\ pendingAuth # None
        /\ appState'.user # None
        /\ Val(appState'.user).id = Val(pendingAuth).uid
        /\ appState'.isOnboarded
        /\ pendingAuth' = None

C38_WitnessLoadFailed ==
    /\ lastAction.name = "onboarding"
    /\ appState.user # None
    /\ HasRemoteSnapshot(Val(appState.user).id)
    /\ Val(remote[Val(appState.user).id]) # appState

(* C39: in every state reached from empty local and remote stores, a       *)
(* snapshot with a user is onboarded, and a snapshot without a user holds  *)
(* no quests, habits or focus sessions (so none of a user who logged out). *)
C39_UserOnboardedOrNoData ==
    /\ appState.user # None => appState.isOnboarded
    /\ appState.user = None =>
          /\ appState.quests = << >>
          /\ appState.habits = << >>
          /\ appState.focusSessions = << >>

\* a user who had completed a quest logged out and is on the sign-in page
\* again: the snapshot has no user and no data, the stored one still has
C39_Witness ==
    /\ appState.user = None
    /\ appState.currentPage = "auth"
    /\ appState.quests = << >>
    /\ localStore # None
    /\ Val(localStore).quests # << >>
    /\ Val(Val(localStore).user).totalXP > 0

\* the positions of the subtask list that the step changed or dropped
TouchedSubtasks ==
    {i \in DOMAIN subtasks :
        \A j \in DOMAIN subtasks' : subtasks'[j] # subtasks[i]}

(* C40: in the quest creation dialog every subtask added gets an id        *)
(* distinct from the ids of all other subtasks in the list, also when two  *)
(* are added within the same clock tick, so that a toggle or a removal by  *)
(* id touches exactly one subtask.                                         *)
C40_SubtaskIdsDistinct ==
    [][/\ \A i, j \in DOMAIN subtasks' :
            i # j => subtasks'[i].id # subtasks'[j].id
       /\ lastAction'.name \in {"toggleSubtask", "removeSubtask"} =>
            Cardinality(TouchedSubtasks) = 1]_vars

====
